---- MODULE Spec2Model ----
(***************************************************************************)
(* The ONVIF event parsers of homeassistant/components/onvif/parsers.py:   *)
(* the topic registry PARSERS, the normalization table                     *)
(* VIDEO_SOURCE_MAPPING, the registered parser coroutines, and a dispatch  *)
(* loop that hands notifications to them one after another, or as          *)
(* concurrent tasks.  The second part is the Withings config flow as      *)
(* tests/components/withings/test_config_flow.py drives it.                *)
(*                                                                         *)
(* Python strings are sequences of one-character strings, so that          *)
(* formatting, joining with "_", float() and datetime parsing work on the  *)
(* characters.  An attribute that may be missing is a sequence of length   *)
(* 0 (missing) or 1 (present).                                             *)
(***************************************************************************)
EXTENDS Integers, Sequences, FiniteSets, TLC

VARIABLES
    PARSERS,                \* the registry: topic -> parser
    VIDEO_SOURCE_MAPPING,   \* the normalization table
    device_uid,             \* the unique id of the device whose events are parsed
    emits,                  \* the parser whose topics this device mostly emits
    loop,                   \* "running", or "crashed" once an exception escaped a parser
    prev,                   \* the notification dispatched before the last, with its outcome
    last,                   \* the last notification dispatched, with its outcome
    tasks,                  \* the parser invocations of a caller that dispatches concurrently
    entries,                \* the config entries of the Withings domain
    flow                    \* the Withings config flow in progress, with its last result

onvif_vars == <<PARSERS, VIDEO_SOURCE_MAPPING, device_uid, emits, loop, prev, last, tasks>>

withings_vars == <<entries, flow>>

vars == <<PARSERS, VIDEO_SOURCE_MAPPING, device_uid, emits, loop, prev, last, tasks,
          entries, flow>>

-----------------------------------------------------------------------------
(* Python values carried by a SimpleItem: a str or None. *)

PyStr(chars) == [t |-> "str", s |-> chars]

PyNone == [t |-> "NoneType", s |-> <<>>]

\* str(v), as an f-string formats it
Str(v) == IF v.t = "str" THEN v.s ELSE <<"N", "o", "n", "e">>

\* v == "literal"
PyEq(v, chars) == v.t = "str" /\ v.s = chars

(* Attributes: <<>> is a missing attribute, <<x>> a present one. *)
Missing == <<>>

Some(x) == <<x>>

Has(attr) == Len(attr) = 1

Item(name, value) == [Name |-> Some(PyStr(name)), Value |-> Some(value)]

ItemNoValue(name) == [Name |-> Some(PyStr(name)), Value |-> Missing]

ItemNoName(value) == [Name |-> Missing, Value |-> Some(value)]

Items(list) == Some([SimpleItem |-> Some(list)])

NoSimpleItem == Some([SimpleItem |-> Missing])

Payload(source, data) == [Source |-> source, Data |-> data]

Msg(source, data) == [Message |-> Some([value_1 |-> Some(Payload(source, data))])]

MsgNoMessage == [Message |-> Missing]

MsgNoValue1 == [Message |-> Some([value_1 |-> Missing])]

-----------------------------------------------------------------------------
(* Results of evaluating an expression that may raise. *)

Ok(x) == [exc |-> "", v |-> x]

Raise(e) == [exc |-> e, v |-> PyNone]

\* msg.Message._value_1
Value1(msg) ==
    IF ~Has(msg.Message) THEN Raise("AttributeError")
    ELSE IF ~Has(msg.Message[1].value_1) THEN Raise("AttributeError")
    ELSE [exc |-> "", v |-> msg.Message[1].value_1[1]]

\* container.SimpleItem[0].Value, container being value_1.Source or value_1.Data
Index0Value(container) ==
    IF ~Has(container) THEN Raise("AttributeError")
    ELSE IF ~Has(container[1].SimpleItem) THEN Raise("AttributeError")
    ELSE LET items == container[1].SimpleItem[1]
         IN  IF Len(items) = 0 THEN Raise("IndexError")
             ELSE IF ~Has(items[1].Value) THEN Raise("AttributeError")
             ELSE Ok(items[1].Value[1])

-----------------------------------------------------------------------------
(* str(value_1): the rendering of the message payload that the f-strings   *)
(* put into the uid.  The payload object renders its content: the Source   *)
(* and Data items in order, each name and value quoted; a missing part     *)
(* renders as None.                                                        *)

Quoted(attr) == IF Has(attr) THEN <<"'">> \o Str(attr[1]) \o <<"'">> ELSE <<"N", "o", "n", "e">>

RECURSIVE FormatItems(_, _)
FormatItems(items, i) ==
    IF i > Len(items) THEN <<>>
    ELSE (IF i > 1 THEN <<",">> ELSE <<>>)
         \o <<"{">> \o Quoted(items[i].Name) \o <<":">> \o Quoted(items[i].Value) \o <<"}">>
         \o FormatItems(items, i + 1)

FormatContainer(container) ==
    IF ~Has(container) THEN <<"N", "o", "n", "e">>
    ELSE IF ~Has(container[1].SimpleItem) THEN <<"{", "}">>
    ELSE <<"[">> \o FormatItems(container[1].SimpleItem[1], 1) \o <<"]">>

\* a rendering by the identity of the object instead of its content: it differs from
\* one notification to the next
FormatObjectId(value_1) == IF ~last.dispatched THEN <<"<", "0", "x", "0", ">">> ELSE <<"<", "0", "x", "1", ">">>

\* a rendering of the payload that leaves the Source items out
FormatDataOnly(value_1) == <<"{", "D", ":">> \o FormatContainer(value_1.Data) \o <<"}">>

FormatValue1(value_1) ==
    <<"{", "S", ":">> \o FormatContainer(value_1.Source) \o <<",", "D", ":">> \o FormatContainer(value_1.Data) \o <<"}">>

-----------------------------------------------------------------------------
(* The Event value object (models.Event, positional arguments as in the    *)
(* calls): value is a bool, an int, a str, a datetime or None.             *)

BoolValue(b) == [t |-> "bool", b |-> b, n |-> 0, s |-> <<>>, d |-> <<>>, z |-> ""]

IntValue(n) == [t |-> "int", b |-> FALSE, n |-> n, s |-> <<>>, d |-> <<>>, z |-> ""]

NoneValue == [t |-> "NoneType", b |-> FALSE, n |-> 0, s |-> <<>>, d |-> <<>>, z |-> ""]

StrValue(chars) == [t |-> "str", b |-> FALSE, n |-> 0, s |-> chars, d |-> <<>>, z |-> ""]

DatetimeValue(fields, zone) ==
    [t |-> "datetime", b |-> FALSE, n |-> 0, s |-> <<>>, d |-> fields, z |-> zone]

\* a SimpleItem value handed to the Event unchanged
RawValue(v) == IF v.t = "str" THEN StrValue(v.s) ELSE NoneValue

Event(uid, name, platform, device_class, unit, value, entity_category, entity_enabled) ==
    [uid |-> uid, name |-> name, platform |-> platform, device_class |-> device_class,
     unit |-> unit, value |-> value, entity_category |-> entity_category,
     entity_enabled |-> entity_enabled]

NoEvent == Event(<<>>, "", "", "", "", NoneValue, "", FALSE)

\* what the try block of a parser evaluates to: an Event, or the exception raised
Returned(event) == [exc |-> "", event |-> event]

Failed(e) == [exc |-> e, event |-> NoEvent]

\* except (AttributeError, KeyError): return None; any other exception propagates
Except(body) ==
    IF body.exc = "" THEN [kind |-> "event", exc |-> "", event |-> body.event]
    ELSE IF body.exc \in {"AttributeError", "KeyError"}
         THEN [kind |-> "none", exc |-> "", event |-> NoEvent]
    ELSE [kind |-> "raise", exc |-> body.exc, event |-> NoEvent]

-----------------------------------------------------------------------------
(* The parsers that read Source.SimpleItem[0].Value.                       *)

\* the try block shared by these parsers; literal is what the Data value is compared with
SourceAnchorBody(uid, msg, name, device_class, literal, entity_category) ==
    LET value_1 == Value1(msg)
    IN  IF value_1.exc # "" THEN Failed(value_1.exc)
        ELSE LET source == Index0Value(value_1.v.Source)
             IN  IF source.exc # "" THEN Failed(source.exc)
                 ELSE LET data == Index0Value(value_1.v.Data)
                      IN  IF data.exc # "" THEN Failed(data.exc)
                          ELSE Returned(Event(
                                   uid \o <<"_">> \o FormatValue1(value_1.v) \o <<"_">> \o Str(source.v),
                                   name, "binary_sensor", device_class, "",
                                   BoolValue(PyEq(data.v, literal)),
                                   entity_category, TRUE))

async_parse_motion_alarm(uid, msg) ==
    Except(SourceAnchorBody(uid, msg, "Motion Alarm", "motion", <<"t", "r", "u", "e">>, ""))

async_parse_image_too_blurry(uid, msg) ==
    Except(SourceAnchorBody(uid, msg, "Image Too Blurry", "problem", <<"t", "r", "u", "e">>, "diagnostic"))

async_parse_image_too_dark(uid, msg) ==
    Except(SourceAnchorBody(uid, msg, "Image Too Dark", "problem", <<"t", "r", "u", "e">>, "diagnostic"))

async_parse_image_too_bright(uid, msg) ==
    Except(SourceAnchorBody(uid, msg, "Image Too Bright", "problem", <<"t", "r", "u", "e">>, "diagnostic"))

async_parse_scene_change(uid, msg) ==
    Except(SourceAnchorBody(uid, msg, "Global Scene Change", "problem", <<"t", "r", "u", "e">>, ""))

async_parse_digital_input(uid, msg) ==
    Except(SourceAnchorBody(uid, msg, "Digital Input", "", <<"t", "r", "u", "e">>, ""))

\* the Relay parser comparing with "true", as the other binary parsers do
async_parse_relay_true(uid, msg) ==
    Except(SourceAnchorBody(uid, msg, "Relay Triggered", "", <<"t", "r", "u", "e">>, ""))

async_parse_relay(uid, msg) ==
    Except(SourceAnchorBody(uid, msg, "Relay Triggered", "", <<"a", "c", "t", "i", "v", "e">>, ""))

async_parse_storage_failure(uid, msg) ==
    Except(SourceAnchorBody(uid, msg, "Storage Failure", "problem", <<"t", "r", "u", "e">>, "diagnostic"))

async_parse_jobstate(uid, msg) ==
    Except(SourceAnchorBody(uid, msg, "Recording Job State", "", <<"A", "c", "t", "i", "v", "e">>, "diagnostic"))

-----------------------------------------------------------------------------
(* The parsers that read Source items by name.                             *)

\* VIDEO_SOURCE_MAPPING.get(source, source)
_normalize_video_source(source) ==
    IF source.t = "str" /\ source.s \in DOMAIN VIDEO_SOURCE_MAPPING
    THEN PyStr(VIDEO_SOURCE_MAPPING[source.s])
    ELSE source

\* VIDEO_SOURCE_MAPPING after VIDEO_SOURCE_MAPPING.setdefault(source, source): a token
\* that is no key is stored under itself
MappingAfterSetdefault(mapping, source) ==
    IF source.t = "str" /\ source.s \notin DOMAIN mapping
    THEN [k \in DOMAIN mapping \cup {source.s} |-> IF k = source.s THEN source.s ELSE mapping[k]]
    ELSE mapping

\* VIDEO_SOURCE_MAPPING after _normalize_video_source(source): dict.get stores nothing
MappingAfterNormalize(mapping, source) == mapping

\* video_source, video_analytics and rule starting as None instead of ""
TokensNone(source, analytics, rule) ==
    [exc |-> "", source |-> PyNone, analytics |-> PyNone, rule |-> PyNone]

Tokens(source, analytics, rule) ==
    [exc |-> "", source |-> source, analytics |-> analytics, rule |-> rule]

\* one pass of the for loop: the three if statements on source.Name, in order;
\* normalize says whether the first assignment goes through _normalize_video_source
ScanStep(item, acc, source_name, analytics_name, normalize) ==
    IF ~Has(item.Name) THEN [acc EXCEPT !.exc = "AttributeError"]
    ELSE IF PyEq(item.Name[1], source_name)
         THEN IF ~Has(item.Value) THEN [acc EXCEPT !.exc = "AttributeError"]
              ELSE [acc EXCEPT !.source = IF normalize
                                          THEN _normalize_video_source(item.Value[1])
                                          ELSE item.Value[1]]
    ELSE IF PyEq(item.Name[1], analytics_name)
         THEN IF ~Has(item.Value) THEN [acc EXCEPT !.exc = "AttributeError"]
              ELSE [acc EXCEPT !.analytics = item.Value[1]]
    ELSE IF PyEq(item.Name[1], <<"R", "u", "l", "e">>)
         THEN IF ~Has(item.Value) THEN [acc EXCEPT !.exc = "AttributeError"]
              ELSE [acc EXCEPT !.rule = item.Value[1]]
    ELSE acc

RECURSIVE ScanItems(_, _, _, _, _, _)
ScanItems(items, i, acc, source_name, analytics_name, normalize) ==
    IF i > Len(items) \/ acc.exc # "" THEN acc
    ELSE ScanItems(items, i + 1,
                   ScanStep(items[i], acc, source_name, analytics_name, normalize),
                   source_name, analytics_name, normalize)

\* the loop with video_source, video_analytics and rule kept at module level and not
\* reset: it starts from what the invocation that ran before left in them
ScanSourceLeftover(value_1, source_name, analytics_name, normalize) ==
    IF ~Has(value_1.Source) THEN Raise("AttributeError")
    ELSE IF ~Has(value_1.Source[1].SimpleItem) THEN Raise("AttributeError")
    ELSE LET fresh == Tokens(PyStr(<<>>), PyStr(<<>>), PyStr(<<>>))
             before == IF /\ last.dispatched
                          /\ Has(last.msg.Message) /\ Has(last.msg.Message[1].value_1)
                          /\ Has(last.msg.Message[1].value_1[1].Source)
                          /\ Has(last.msg.Message[1].value_1[1].Source[1].SimpleItem)
                       THEN ScanItems(last.msg.Message[1].value_1[1].Source[1].SimpleItem[1],
                                      1, fresh, source_name, analytics_name, normalize)
                       ELSE fresh
         IN  ScanItems(value_1.Source[1].SimpleItem[1], 1, [before EXCEPT !.exc = ""],
                       source_name, analytics_name, normalize)

\* for source in value_1.Source.SimpleItem: ..., from the three empty strings
ScanSource(value_1, source_name, analytics_name, normalize) ==
    IF ~Has(value_1.Source) THEN Raise("AttributeError")
    ELSE IF ~Has(value_1.Source[1].SimpleItem) THEN Raise("AttributeError")
    ELSE ScanItems(value_1.Source[1].SimpleItem[1], 1,
                   Tokens(PyStr(<<>>), PyStr(<<>>), PyStr(<<>>)),
                   source_name, analytics_name, normalize)

RuleUid(uid, value_1, tokens) ==
    uid \o <<"_">> \o FormatValue1(value_1) \o <<"_">> \o Str(tokens.source)
        \o <<"_">> \o Str(tokens.analytics) \o <<"_">> \o Str(tokens.rule)

\* the try block of the binary parsers keyed by source token, analytics token and rule
RuleBinaryBody(uid, msg, source_name, analytics_name, normalize, name, device_class, literals, entity_category) ==
    LET value_1 == Value1(msg)
    IN  IF value_1.exc # "" THEN Failed(value_1.exc)
        ELSE LET tokens == ScanSource(value_1.v, source_name, analytics_name, normalize)
             IN  IF tokens.exc # "" THEN Failed(tokens.exc)
                 ELSE LET data == Index0Value(value_1.v.Data)
                      IN  IF data.exc # "" THEN Failed(data.exc)
                          ELSE Returned(Event(
                                   RuleUid(uid, value_1.v, tokens),
                                   name, "binary_sensor", device_class, "",
                                   BoolValue(\E l \in literals : PyEq(data.v, l)),
                                   entity_category, TRUE))

\* the try block of the two sensor parsers keyed the same way; the value is the Data value
RuleSensorBody(uid, msg, normalize, name) ==
    LET value_1 == Value1(msg)
    IN  IF value_1.exc # "" THEN Failed(value_1.exc)
        ELSE LET tokens == ScanSource(value_1.v, <<"V", "i", "d", "e", "o", "S", "o", "u", "r", "c", "e", "C", "o", "n", "f", "i", "g", "u", "r", "a", "t", "i", "o", "n", "T", "o", "k", "e", "n">>,
                                      <<"V", "i", "d", "e", "o", "A", "n", "a", "l", "y", "t", "i", "c", "s", "C", "o", "n", "f", "i", "g", "u", "r", "a", "t", "i", "o", "n", "T", "o", "k", "e", "n">>, normalize)
             IN  IF tokens.exc # "" THEN Failed(tokens.exc)
                 ELSE LET data == Index0Value(value_1.v.Data)
                      IN  IF data.exc # "" THEN Failed(data.exc)
                          ELSE Returned(Event(
                                   RuleUid(uid, value_1.v, tokens),
                                   name, "sensor", "", "", RawValue(data.v),
                                   "diagnostic", TRUE))

async_parse_detected_sound(uid, msg) ==
    Except(RuleBinaryBody(uid, msg, <<"A", "u", "d", "i", "o", "S", "o", "u", "r", "c", "e", "C", "o", "n", "f", "i", "g", "u", "r", "a", "t", "i", "o", "n", "T", "o", "k", "e", "n">>,
                          <<"A", "u", "d", "i", "o", "A", "n", "a", "l", "y", "t", "i", "c", "s", "C", "o", "n", "f", "i", "g", "u", "r", "a", "t", "i", "o", "n", "T", "o", "k", "e", "n">>, FALSE,
                          "Detected Sound", "sound", {<<"t", "r", "u", "e">>}, ""))

async_parse_field_detector(uid, msg) ==
    Except(RuleBinaryBody(uid, msg, <<"V", "i", "d", "e", "o", "S", "o", "u", "r", "c", "e", "C", "o", "n", "f", "i", "g", "u", "r", "a", "t", "i", "o", "n", "T", "o", "k", "e", "n">>,
                          <<"V", "i", "d", "e", "o", "A", "n", "a", "l", "y", "t", "i", "c", "s", "C", "o", "n", "f", "i", "g", "u", "r", "a", "t", "i", "o", "n", "T", "o", "k", "e", "n">>, TRUE,
                          "Field Detection", "motion", {<<"t", "r", "u", "e">>}, ""))

async_parse_cell_motion_detector(uid, msg) ==
    Except(RuleBinaryBody(uid, msg, <<"V", "i", "d", "e", "o", "S", "o", "u", "r", "c", "e", "C", "o", "n", "f", "i", "g", "u", "r", "a", "t", "i", "o", "n", "T", "o", "k", "e", "n">>,
                          <<"V", "i", "d", "e", "o", "A", "n", "a", "l", "y", "t", "i", "c", "s", "C", "o", "n", "f", "i", "g", "u", "r", "a", "t", "i", "o", "n", "T", "o", "k", "e", "n">>, TRUE,
                          "Cell Motion Detection", "motion", {<<"t", "r", "u", "e">>}, ""))

async_parse_motion_region_detector(uid, msg) ==
    Except(RuleBinaryBody(uid, msg, <<"V", "i", "d", "e", "o", "S", "o", "u", "r", "c", "e", "C", "o", "n", "f", "i", "g", "u", "r", "a", "t", "i", "o", "n", "T", "o", "k", "e", "n">>,
                          <<"V", "i", "d", "e", "o", "A", "n", "a", "l", "y", "t", "i", "c", "s", "C", "o", "n", "f", "i", "g", "u", "r", "a", "t", "i", "o", "n", "T", "o", "k", "e", "n">>, TRUE,
                          "Motion Region Detection", "motion", {<<"1">>, <<"t", "r", "u", "e">>}, ""))

async_parse_tamper_detector(uid, msg) ==
    Except(RuleBinaryBody(uid, msg, <<"V", "i", "d", "e", "o", "S", "o", "u", "r", "c", "e", "C", "o", "n", "f", "i", "g", "u", "r", "a", "t", "i", "o", "n", "T", "o", "k", "e", "n">>,
                          <<"V", "i", "d", "e", "o", "A", "n", "a", "l", "y", "t", "i", "c", "s", "C", "o", "n", "f", "i", "g", "u", "r", "a", "t", "i", "o", "n", "T", "o", "k", "e", "n">>, TRUE,
                          "Tamper Detection", "problem", {<<"t", "r", "u", "e">>}, "diagnostic"))

async_parse_linedetector_crossed(uid, msg) ==
    Except(RuleSensorBody(uid, msg, FALSE, "Line Detector Crossed"))

async_parse_count_aggregation_counter(uid, msg) ==
    Except(RuleSensorBody(uid, msg, TRUE, "Count Aggregation Counter"))

-----------------------------------------------------------------------------
(* The MyRuleDetector parsers: the video source is the item named Source.  *)

RECURSIVE ScanMyRule(_, _, _)
ScanMyRule(items, i, acc) ==
    IF i > Len(items) \/ acc.exc # "" THEN acc
    ELSE IF ~Has(items[i].Name) THEN Raise("AttributeError")
    ELSE IF PyEq(items[i].Name[1], <<"S", "o", "u", "r", "c", "e">>)
         THEN IF ~Has(items[i].Value) THEN Raise("AttributeError")
              ELSE ScanMyRule(items, i + 1, Ok(_normalize_video_source(items[i].Value[1])))
    ELSE ScanMyRule(items, i + 1, acc)

MyRuleBody(uid, msg, name, device_class) ==
    LET value_1 == Value1(msg)
    IN  IF value_1.exc # "" THEN Failed(value_1.exc)
        ELSE IF ~Has(value_1.v.Source) THEN Failed("AttributeError")
        ELSE IF ~Has(value_1.v.Source[1].SimpleItem) THEN Failed("AttributeError")
        ELSE LET video_source == ScanMyRule(value_1.v.Source[1].SimpleItem[1], 1,
                                            Ok(PyStr(<<>>)))
             IN  IF video_source.exc # "" THEN Failed(video_source.exc)
                 ELSE LET data == Index0Value(value_1.v.Data)
                      IN  IF data.exc # "" THEN Failed(data.exc)
                          ELSE Returned(Event(
                                   uid \o <<"_">> \o FormatValue1(value_1.v)
                                       \o <<"_">> \o Str(video_source.v),
                                   name, "binary_sensor", device_class, "",
                                   BoolValue(PyEq(data.v, <<"t", "r", "u", "e">>)), "", TRUE))

async_parse_dog_cat_detector(uid, msg) ==
    Except(MyRuleBody(uid, msg, "Pet Detection", "motion"))

async_parse_vehicle_detector(uid, msg) ==
    Except(MyRuleBody(uid, msg, "Vehicle Detection", "motion"))

async_parse_person_detector(uid, msg) ==
    Except(MyRuleBody(uid, msg, "Person Detection", "motion"))

async_parse_face_detector(uid, msg) ==
    Except(MyRuleBody(uid, msg, "Face Detection", "motion"))

async_parse_visitor_detector(uid, msg) ==
    Except(MyRuleBody(uid, msg, "Visitor Detection", "occupancy"))

-----------------------------------------------------------------------------
(* float(), on decimal literals: an optional sign, digits, and an optional *)
(* point with more digits.  The number is held in thousandths, which is    *)
(* exact for every literal of up to three fractional digits; digits past   *)
(* the third are dropped.  Binary rounding of the product is not modelled. *)

IsDigit(c) == c \in {"0", "1", "2", "3", "4", "5", "6", "7", "8", "9"}

DigitValue(c) ==
    CASE c = "0" -> 0 [] c = "1" -> 1 [] c = "2" -> 2 [] c = "3" -> 3 [] c = "4" -> 4
      [] c = "5" -> 5 [] c = "6" -> 6 [] c = "7" -> 7 [] c = "8" -> 8 [] c = "9" -> 9

AllDigits(chars) == \A i \in 1..Len(chars) : IsDigit(chars[i])

RECURSIVE DigitsValue(_, _, _)
DigitsValue(chars, i, acc) ==
    IF i > Len(chars) THEN acc
    ELSE DigitsValue(chars, i + 1, acc * 10 + DigitValue(chars[i]))

\* the first three fractional digits, as thousandths
Thousandths(frac) ==
    LET d(i) == IF i <= Len(frac) THEN DigitValue(frac[i]) ELSE 0
    IN  d(1) * 100 + d(2) * 10 + d(3)

\* float(x): the number in thousandths, or the exception raised
Float(x) ==
    IF x.t # "str" THEN [exc |-> "TypeError", v |-> 0]
    ELSE LET signed == Len(x.s) > 0 /\ x.s[1] \in {"-", "+"}
             body == IF signed THEN Tail(x.s) ELSE x.s
             dots == {i \in 1..Len(body) : body[i] = "."}
             point == IF dots = {} THEN Len(body) + 1 ELSE CHOOSE i \in dots : TRUE
             whole == SubSeq(body, 1, point - 1)
             frac == SubSeq(body, point + 1, Len(body))
             wellformed == /\ Cardinality(dots) <= 1
                           /\ AllDigits(whole) /\ AllDigits(frac)
                           /\ Len(whole) + Len(frac) > 0
             magnitude == DigitsValue(whole, 1, 0) * 1000 + Thousandths(frac)
         IN  IF ~wellformed THEN [exc |-> "ValueError", v |-> 0]
             ELSE [exc |-> "", v |-> IF signed /\ x.s[1] = "-" THEN -magnitude ELSE magnitude]

\* int(usage): truncation toward zero
Truncate(thousandths) ==
    IF thousandths >= 0 THEN thousandths \div 1000 ELSE -((-thousandths) \div 1000)

\* rescaling only the values strictly below 1
RescaleBelowOne(usage) == IF usage < 1000 THEN usage * 100 ELSE usage

\* if usage <= 1: usage *= 100
Rescale(usage) == IF usage <= 1000 THEN usage * 100 ELSE usage

async_parse_processor_usage(uid, msg) ==
    Except(LET value_1 == Value1(msg)
           IN  IF value_1.exc # "" THEN Failed(value_1.exc)
               ELSE LET data == Index0Value(value_1.v.Data)
                    IN  IF data.exc # "" THEN Failed(data.exc)
                        ELSE LET usage == Float(data.v)
                             IN  IF usage.exc # "" THEN Failed(usage.exc)
                                 ELSE Returned(Event(
                                          uid \o <<"_">> \o FormatValue1(value_1.v),
                                          "Processor Usage", "sensor", "", "percent",
                                          IntValue(Truncate(Rescale(usage.v))),
                                          "diagnostic", TRUE)))

-----------------------------------------------------------------------------
(* Timestamps.  dt_util.parse_datetime and dt_util.as_local are the        *)
(* platform's: a string of the shape YYYY-MM-DDThh:mm:ssZ parses to a UTC  *)
(* datetime, or raises ValueError when a field is out of range (a year,    *)
(* month or day of 0); any other string gives None.  A datetime is its     *)
(* UTC fields and the zone it is expressed in.                             *)

IsTimestampShape(chars) ==
    /\ Len(chars) = 20
    /\ \A i \in {1, 2, 3, 4, 6, 7, 9, 10, 12, 13, 15, 16, 18, 19} : IsDigit(chars[i])
    /\ chars[5] = "-" /\ chars[8] = "-" /\ chars[11] = "T"
    /\ chars[14] = ":" /\ chars[17] = ":" /\ chars[20] = "Z"

DaysInMonth(year, month) ==
    IF month \in {4, 6, 9, 11} THEN 30
    ELSE IF month # 2 THEN 31
    ELSE IF year % 4 = 0 /\ (year % 100 # 0 \/ year % 400 = 0) THEN 29
    ELSE 28

parse_datetime(dt_str) ==
    IF dt_str.t # "str" THEN [exc |-> "TypeError", v |-> NoneValue]
    ELSE IF ~IsTimestampShape(dt_str.s) THEN [exc |-> "", v |-> NoneValue]
    ELSE LET num(i, j) == DigitsValue(SubSeq(dt_str.s, i, j), 1, 0)
             year == num(1, 4)
             month == num(6, 7)
             day == num(9, 10)
             hour == num(12, 13)
             minute == num(15, 16)
             second == num(18, 19)
         IN  IF /\ year >= 1 /\ month \in 1..12 /\ day >= 1 /\ day <= DaysInMonth(year, month)
                /\ hour <= 23 /\ minute <= 59 /\ second <= 59
             THEN [exc |-> "",
                   v |-> DatetimeValue(<<year, month, day, hour, minute, second>>, "UTC")]
             ELSE [exc |-> "ValueError", v |-> NoneValue]

\* the same instant, expressed in the local time zone
as_local(dattim) == [dattim EXCEPT !.z = "local"]

\* the conversion without the try/except around parse_datetime
local_datetime_uncaught(value) ==
    LET ret == parse_datetime(value)
    IN  IF ret.exc # "" THEN ret
        ELSE IF ret.v.t # "NoneType" THEN [exc |-> "", v |-> as_local(ret.v)]
        ELSE [exc |-> "", v |-> NoneValue]

\* try: ret = parse_datetime(value); except ValueError: return None
local_datetime_or_none(value) ==
    LET ret == parse_datetime(value)
    IN  IF ret.exc = "ValueError" THEN [exc |-> "", v |-> NoneValue]
        ELSE IF ret.exc # "" THEN ret
        ELSE IF ret.v.t # "NoneType" THEN [exc |-> "", v |-> as_local(ret.v)]
        ELSE [exc |-> "", v |-> NoneValue]

TimestampBody(uid, msg, name, entity_enabled) ==
    LET value_1 == Value1(msg)
    IN  IF value_1.exc # "" THEN Failed(value_1.exc)
        ELSE LET data == Index0Value(value_1.v.Data)
             IN  IF data.exc # "" THEN Failed(data.exc)
                 ELSE LET date_time == local_datetime_or_none(data.v)
                      IN  IF date_time.exc # "" THEN Failed(date_time.exc)
                          ELSE Returned(Event(
                                   uid \o <<"_">> \o FormatValue1(value_1.v),
                                   name, "sensor", "timestamp", "", date_time.v,
                                   "diagnostic", entity_enabled))

async_parse_last_reboot(uid, msg) ==
    Except(TimestampBody(uid, msg, "Last Reboot", TRUE))

async_parse_last_reset(uid, msg) ==
    Except(TimestampBody(uid, msg, "Last Reset", FALSE))

\* the Backup/Last parser without entity_enabled=False: the Event default applies
async_parse_backup_last_enabled(uid, msg) ==
    Except(TimestampBody(uid, msg, "Last Backup", TRUE))

async_parse_backup_last(uid, msg) ==
    Except(TimestampBody(uid, msg, "Last Backup", FALSE))

async_parse_last_clock_sync(uid, msg) ==
    Except(TimestampBody(uid, msg, "Last Clock Synchronization", FALSE))

-----------------------------------------------------------------------------
(* The registry.  Each @PARSERS.register(topic) line stores the decorated  *)
(* function under the topic; the registrations are listed in file order.   *)

\* the registrations with the ImagingService line of async_parse_image_too_blurry left out
REGISTRATIONS_without_imaging == <<
    <<<<"t", "n", "s", "1", ":", "V", "i", "d", "e", "o", "S", "o", "u", "r", "c", "e", "/", "M", "o", "t", "i", "o", "n", "A", "l", "a", "r", "m">>, "async_parse_motion_alarm">>,
    <<<<"t", "n", "s", "1", ":", "V", "i", "d", "e", "o", "S", "o", "u", "r", "c", "e", "/", "I", "m", "a", "g", "e", "T", "o", "o", "B", "l", "u", "r", "r", "y", "/", "A", "n", "a", "l", "y", "t", "i", "c", "s", "S", "e", "r", "v", "i", "c", "e">>, "async_parse_image_too_blurry">>,
    <<<<"t", "n", "s", "1", ":", "V", "i", "d", "e", "o", "S", "o", "u", "r", "c", "e", "/", "I", "m", "a", "g", "e", "T", "o", "o", "B", "l", "u", "r", "r", "y", "/", "R", "e", "c", "o", "r", "d", "i", "n", "g", "S", "e", "r", "v", "i", "c", "e">>, "async_parse_image_too_blurry">>,
    <<<<"t", "n", "s", "1", ":", "V", "i", "d", "e", "o", "S", "o", "u", "r", "c", "e", "/", "I", "m", "a", "g", "e", "T", "o", "o", "D", "a", "r", "k", "/", "A", "n", "a", "l", "y", "t", "i", "c", "s", "S", "e", "r", "v", "i", "c", "e">>, "async_parse_image_too_dark">>,
    <<<<"t", "n", "s", "1", ":", "V", "i", "d", "e", "o", "S", "o", "u", "r", "c", "e", "/", "I", "m", "a", "g", "e", "T", "o", "o", "D", "a", "r", "k", "/", "I", "m", "a", "g", "i", "n", "g", "S", "e", "r", "v", "i", "c", "e">>, "async_parse_image_too_dark">>,
    <<<<"t", "n", "s", "1", ":", "V", "i", "d", "e", "o", "S", "o", "u", "r", "c", "e", "/", "I", "m", "a", "g", "e", "T", "o", "o", "D", "a", "r", "k", "/", "R", "e", "c", "o", "r", "d", "i", "n", "g", "S", "e", "r", "v", "i", "c", "e">>, "async_parse_image_too_dark">>,
    <<<<"t", "n", "s", "1", ":", "V", "i", "d", "e", "o", "S", "o", "u", "r", "c", "e", "/", "I", "m", "a", "g", "e", "T", "o", "o", "B", "r", "i", "g", "h", "t", "/", "A", "n", "a", "l", "y", "t", "i", "c", "s", "S", "e", "r", "v", "i", "c", "e">>, "async_parse_image_too_bright">>,
    <<<<"t", "n", "s", "1", ":", "V", "i", "d", "e", "o", "S", "o", "u", "r", "c", "e", "/", "I", "m", "a", "g", "e", "T", "o", "o", "B", "r", "i", "g", "h", "t", "/", "I", "m", "a", "g", "i", "n", "g", "S", "e", "r", "v", "i", "c", "e">>, "async_parse_image_too_bright">>,
    <<<<"t", "n", "s", "1", ":", "V", "i", "d", "e", "o", "S", "o", "u", "r", "c", "e", "/", "I", "m", "a", "g", "e", "T", "o", "o", "B", "r", "i", "g", "h", "t", "/", "R", "e", "c", "o", "r", "d", "i", "n", "g", "S", "e", "r", "v", "i", "c", "e">>, "async_parse_image_too_bright">>,
    <<<<"t", "n", "s", "1", ":", "V", "i", "d", "e", "o", "S", "o", "u", "r", "c", "e", "/", "G", "l", "o", "b", "a", "l", "S", "c", "e", "n", "e", "C", "h", "a", "n", "g", "e", "/", "A", "n", "a", "l", "y", "t", "i", "c", "s", "S", "e", "r", "v", "i", "c", "e">>, "async_parse_scene_change">>,
    <<<<"t", "n", "s", "1", ":", "V", "i", "d", "e", "o", "S", "o", "u", "r", "c", "e", "/", "G", "l", "o", "b", "a", "l", "S", "c", "e", "n", "e", "C", "h", "a", "n", "g", "e", "/", "I", "m", "a", "g", "i", "n", "g", "S", "e", "r", "v", "i", "c", "e">>, "async_parse_scene_change">>,
    <<<<"t", "n", "s", "1", ":", "V", "i", "d", "e", "o", "S", "o", "u", "r", "c", "e", "/", "G", "l", "o", "b", "a", "l", "S", "c", "e", "n", "e", "C", "h", "a", "n", "g", "e", "/", "R", "e", "c", "o", "r", "d", "i", "n", "g", "S", "e", "r", "v", "i", "c", "e">>, "async_parse_scene_change">>,
    <<<<"t", "n", "s", "1", ":", "A", "u", "d", "i", "o", "A", "n", "a", "l", "y", "t", "i", "c", "s", "/", "A", "u", "d", "i", "o", "/", "D", "e", "t", "e", "c", "t", "e", "d", "S", "o", "u", "n", "d">>, "async_parse_detected_sound">>,
    <<<<"t", "n", "s", "1", ":", "R", "u", "l", "e", "E", "n", "g", "i", "n", "e", "/", "F", "i", "e", "l", "d", "D", "e", "t", "e", "c", "t", "o", "r", "/", "O", "b", "j", "e", "c", "t", "s", "I", "n", "s", "i", "d", "e">>, "async_parse_field_detector">>,
    <<<<"t", "n", "s", "1", ":", "R", "u", "l", "e", "E", "n", "g", "i", "n", "e", "/", "C", "e", "l", "l", "M", "o", "t", "i", "o", "n", "D", "e", "t", "e", "c", "t", "o", "r", "/", "M", "o", "t", "i", "o", "n">>, "async_parse_cell_motion_detector">>,
    <<<<"t", "n", "s", "1", ":", "R", "u", "l", "e", "E", "n", "g", "i", "n", "e", "/", "M", "o", "t", "i", "o", "n", "R", "e", "g", "i", "o", "n", "D", "e", "t", "e", "c", "t", "o", "r", "/", "M", "o", "t", "i", "o", "n">>, "async_parse_motion_region_detector">>,
    <<<<"t", "n", "s", "1", ":", "R", "u", "l", "e", "E", "n", "g", "i", "n", "e", "/", "T", "a", "m", "p", "e", "r", "D", "e", "t", "e", "c", "t", "o", "r", "/", "T", "a", "m", "p", "e", "r">>, "async_parse_tamper_detector">>,
    <<<<"t", "n", "s", "1", ":", "R", "u", "l", "e", "E", "n", "g", "i", "n", "e", "/", "M", "y", "R", "u", "l", "e", "D", "e", "t", "e", "c", "t", "o", "r", "/", "D", "o", "g", "C", "a", "t", "D", "e", "t", "e", "c", "t">>, "async_parse_dog_cat_detector">>,
    <<<<"t", "n", "s", "1", ":", "R", "u", "l", "e", "E", "n", "g", "i", "n", "e", "/", "M", "y", "R", "u", "l", "e", "D", "e", "t", "e", "c", "t", "o", "r", "/", "V", "e", "h", "i", "c", "l", "e", "D", "e", "t", "e", "c", "t">>, "async_parse_vehicle_detector">>,
    <<<<"t", "n", "s", "1", ":", "R", "u", "l", "e", "E", "n", "g", "i", "n", "e", "/", "M", "y", "R", "u", "l", "e", "D", "e", "t", "e", "c", "t", "o", "r", "/", "P", "e", "o", "p", "l", "e", "D", "e", "t", "e", "c", "t">>, "async_parse_person_detector">>,
    <<<<"t", "n", "s", "1", ":", "R", "u", "l", "e", "E", "n", "g", "i", "n", "e", "/", "M", "y", "R", "u", "l", "e", "D", "e", "t", "e", "c", "t", "o", "r", "/", "F", "a", "c", "e", "D", "e", "t", "e", "c", "t">>, "async_parse_face_detector">>,
    <<<<"t", "n", "s", "1", ":", "R", "u", "l", "e", "E", "n", "g", "i", "n", "e", "/", "M", "y", "R", "u", "l", "e", "D", "e", "t", "e", "c", "t", "o", "r", "/", "V", "i", "s", "i", "t", "o", "r">>, "async_parse_visitor_detector">>,
    <<<<"t", "n", "s", "1", ":", "D", "e", "v", "i", "c", "e", "/", "T", "r", "i", "g", "g", "e", "r", "/", "D", "i", "g", "i", "t", "a", "l", "I", "n", "p", "u", "t">>, "async_parse_digital_input">>,
    <<<<"t", "n", "s", "1", ":", "D", "e", "v", "i", "c", "e", "/", "T", "r", "i", "g", "g", "e", "r", "/", "R", "e", "l", "a", "y">>, "async_parse_relay">>,
    <<<<"t", "n", "s", "1", ":", "D", "e", "v", "i", "c", "e", "/", "H", "a", "r", "d", "w", "a", "r", "e", "F", "a", "i", "l", "u", "r", "e", "/", "S", "t", "o", "r", "a", "g", "e", "F", "a", "i", "l", "u", "r", "e">>, "async_parse_storage_failure">>,
    <<<<"t", "n", "s", "1", ":", "M", "o", "n", "i", "t", "o", "r", "i", "n", "g", "/", "P", "r", "o", "c", "e", "s", "s", "o", "r", "U", "s", "a", "g", "e">>, "async_parse_processor_usage">>,
    <<<<"t", "n", "s", "1", ":", "M", "o", "n", "i", "t", "o", "r", "i", "n", "g", "/", "O", "p", "e", "r", "a", "t", "i", "n", "g", "T", "i", "m", "e", "/", "L", "a", "s", "t", "R", "e", "b", "o", "o", "t">>, "async_parse_last_reboot">>,
    <<<<"t", "n", "s", "1", ":", "M", "o", "n", "i", "t", "o", "r", "i", "n", "g", "/", "O", "p", "e", "r", "a", "t", "i", "n", "g", "T", "i", "m", "e", "/", "L", "a", "s", "t", "R", "e", "s", "e", "t">>, "async_parse_last_reset">>,
    <<<<"t", "n", "s", "1", ":", "M", "o", "n", "i", "t", "o", "r", "i", "n", "g", "/", "B", "a", "c", "k", "u", "p", "/", "L", "a", "s", "t">>, "async_parse_backup_last">>,
    <<<<"t", "n", "s", "1", ":", "M", "o", "n", "i", "t", "o", "r", "i", "n", "g", "/", "O", "p", "e", "r", "a", "t", "i", "n", "g", "T", "i", "m", "e", "/", "L", "a", "s", "t", "C", "l", "o", "c", "k", "S", "y", "n", "c", "h", "r", "o", "n", "i", "z", "a", "t", "i", "o", "n">>, "async_parse_last_clock_sync">>,
    <<<<"t", "n", "s", "1", ":", "R", "e", "c", "o", "r", "d", "i", "n", "g", "C", "o", "n", "f", "i", "g", "/", "J", "o", "b", "S", "t", "a", "t", "e">>, "async_parse_jobstate">>,
    <<<<"t", "n", "s", "1", ":", "R", "u", "l", "e", "E", "n", "g", "i", "n", "e", "/", "L", "i", "n", "e", "D", "e", "t", "e", "c", "t", "o", "r", "/", "C", "r", "o", "s", "s", "e", "d">>, "async_parse_linedetector_crossed">>,
    <<<<"t", "n", "s", "1", ":", "R", "u", "l", "e", "E", "n", "g", "i", "n", "e", "/", "C", "o", "u", "n", "t", "A", "g", "g", "r", "e", "g", "a", "t", "i", "o", "n", "/", "C", "o", "u", "n", "t", "e", "r">>, "async_parse_count_aggregation_counter">>
    >>

REGISTRATIONS == <<
    <<<<"t", "n", "s", "1", ":", "V", "i", "d", "e", "o", "S", "o", "u", "r", "c", "e", "/", "M", "o", "t", "i", "o", "n", "A", "l", "a", "r", "m">>, "async_parse_motion_alarm">>,
    <<<<"t", "n", "s", "1", ":", "V", "i", "d", "e", "o", "S", "o", "u", "r", "c", "e", "/", "I", "m", "a", "g", "e", "T", "o", "o", "B", "l", "u", "r", "r", "y", "/", "A", "n", "a", "l", "y", "t", "i", "c", "s", "S", "e", "r", "v", "i", "c", "e">>, "async_parse_image_too_blurry">>,
    <<<<"t", "n", "s", "1", ":", "V", "i", "d", "e", "o", "S", "o", "u", "r", "c", "e", "/", "I", "m", "a", "g", "e", "T", "o", "o", "B", "l", "u", "r", "r", "y", "/", "I", "m", "a", "g", "i", "n", "g", "S", "e", "r", "v", "i", "c", "e">>, "async_parse_image_too_blurry">>,
    <<<<"t", "n", "s", "1", ":", "V", "i", "d", "e", "o", "S", "o", "u", "r", "c", "e", "/", "I", "m", "a", "g", "e", "T", "o", "o", "B", "l", "u", "r", "r", "y", "/", "R", "e", "c", "o", "r", "d", "i", "n", "g", "S", "e", "r", "v", "i", "c", "e">>, "async_parse_image_too_blurry">>,
    <<<<"t", "n", "s", "1", ":", "V", "i", "d", "e", "o", "S", "o", "u", "r", "c", "e", "/", "I", "m", "a", "g", "e", "T", "o", "o", "D", "a", "r", "k", "/", "A", "n", "a", "l", "y", "t", "i", "c", "s", "S", "e", "r", "v", "i", "c", "e">>, "async_parse_image_too_dark">>,
    <<<<"t", "n", "s", "1", ":", "V", "i", "d", "e", "o", "S", "o", "u", "r", "c", "e", "/", "I", "m", "a", "g", "e", "T", "o", "o", "D", "a", "r", "k", "/", "I", "m", "a", "g", "i", "n", "g", "S", "e", "r", "v", "i", "c", "e">>, "async_parse_image_too_dark">>,
    <<<<"t", "n", "s", "1", ":", "V", "i", "d", "e", "o", "S", "o", "u", "r", "c", "e", "/", "I", "m", "a", "g", "e", "T", "o", "o", "D", "a", "r", "k", "/", "R", "e", "c", "o", "r", "d", "i", "n", "g", "S", "e", "r", "v", "i", "c", "e">>, "async_parse_image_too_dark">>,
    <<<<"t", "n", "s", "1", ":", "V", "i", "d", "e", "o", "S", "o", "u", "r", "c", "e", "/", "I", "m", "a", "g", "e", "T", "o", "o", "B", "r", "i", "g", "h", "t", "/", "A", "n", "a", "l", "y", "t", "i", "c", "s", "S", "e", "r", "v", "i", "c", "e">>, "async_parse_image_too_bright">>,
    <<<<"t", "n", "s", "1", ":", "V", "i", "d", "e", "o", "S", "o", "u", "r", "c", "e", "/", "I", "m", "a", "g", "e", "T", "o", "o", "B", "r", "i", "g", "h", "t", "/", "I", "m", "a", "g", "i", "n", "g", "S", "e", "r", "v", "i", "c", "e">>, "async_parse_image_too_bright">>,
    <<<<"t", "n", "s", "1", ":", "V", "i", "d", "e", "o", "S", "o", "u", "r", "c", "e", "/", "I", "m", "a", "g", "e", "T", "o", "o", "B", "r", "i", "g", "h", "t", "/", "R", "e", "c", "o", "r", "d", "i", "n", "g", "S", "e", "r", "v", "i", "c", "e">>, "async_parse_image_too_bright">>,
    <<<<"t", "n", "s", "1", ":", "V", "i", "d", "e", "o", "S", "o", "u", "r", "c", "e", "/", "G", "l", "o", "b", "a", "l", "S", "c", "e", "n", "e", "C", "h", "a", "n", "g", "e", "/", "A", "n", "a", "l", "y", "t", "i", "c", "s", "S", "e", "r", "v", "i", "c", "e">>, "async_parse_scene_change">>,
    <<<<"t", "n", "s", "1", ":", "V", "i", "d", "e", "o", "S", "o", "u", "r", "c", "e", "/", "G", "l", "o", "b", "a", "l", "S", "c", "e", "n", "e", "C", "h", "a", "n", "g", "e", "/", "I", "m", "a", "g", "i", "n", "g", "S", "e", "r", "v", "i", "c", "e">>, "async_parse_scene_change">>,
    <<<<"t", "n", "s", "1", ":", "V", "i", "d", "e", "o", "S", "o", "u", "r", "c", "e", "/", "G", "l", "o", "b", "a", "l", "S", "c", "e", "n", "e", "C", "h", "a", "n", "g", "e", "/", "R", "e", "c", "o", "r", "d", "i", "n", "g", "S", "e", "r", "v", "i", "c", "e">>, "async_parse_scene_change">>,
    <<<<"t", "n", "s", "1", ":", "A", "u", "d", "i", "o", "A", "n", "a", "l", "y", "t", "i", "c", "s", "/", "A", "u", "d", "i", "o", "/", "D", "e", "t", "e", "c", "t", "e", "d", "S", "o", "u", "n", "d">>, "async_parse_detected_sound">>,
    <<<<"t", "n", "s", "1", ":", "R", "u", "l", "e", "E", "n", "g", "i", "n", "e", "/", "F", "i", "e", "l", "d", "D", "e", "t", "e", "c", "t", "o", "r", "/", "O", "b", "j", "e", "c", "t", "s", "I", "n", "s", "i", "d", "e">>, "async_parse_field_detector">>,
    <<<<"t", "n", "s", "1", ":", "R", "u", "l", "e", "E", "n", "g", "i", "n", "e", "/", "C", "e", "l", "l", "M", "o", "t", "i", "o", "n", "D", "e", "t", "e", "c", "t", "o", "r", "/", "M", "o", "t", "i", "o", "n">>, "async_parse_cell_motion_detector">>,
    <<<<"t", "n", "s", "1", ":", "R", "u", "l", "e", "E", "n", "g", "i", "n", "e", "/", "M", "o", "t", "i", "o", "n", "R", "e", "g", "i", "o", "n", "D", "e", "t", "e", "c", "t", "o", "r", "/", "M", "o", "t", "i", "o", "n">>, "async_parse_motion_region_detector">>,
    <<<<"t", "n", "s", "1", ":", "R", "u", "l", "e", "E", "n", "g", "i", "n", "e", "/", "T", "a", "m", "p", "e", "r", "D", "e", "t", "e", "c", "t", "o", "r", "/", "T", "a", "m", "p", "e", "r">>, "async_parse_tamper_detector">>,
    <<<<"t", "n", "s", "1", ":", "R", "u", "l", "e", "E", "n", "g", "i", "n", "e", "/", "M", "y", "R", "u", "l", "e", "D", "e", "t", "e", "c", "t", "o", "r", "/", "D", "o", "g", "C", "a", "t", "D", "e", "t", "e", "c", "t">>, "async_parse_dog_cat_detector">>,
    <<<<"t", "n", "s", "1", ":", "R", "u", "l", "e", "E", "n", "g", "i", "n", "e", "/", "M", "y", "R", "u", "l", "e", "D", "e", "t", "e", "c", "t", "o", "r", "/", "V", "e", "h", "i", "c", "l", "e", "D", "e", "t", "e", "c", "t">>, "async_parse_vehicle_detector">>,
    <<<<"t", "n", "s", "1", ":", "R", "u", "l", "e", "E", "n", "g", "i", "n", "e", "/", "M", "y", "R", "u", "l", "e", "D", "e", "t", "e", "c", "t", "o", "r", "/", "P", "e", "o", "p", "l", "e", "D", "e", "t", "e", "c", "t">>, "async_parse_person_detector">>,
    <<<<"t", "n", "s", "1", ":", "R", "u", "l", "e", "E", "n", "g", "i", "n", "e", "/", "M", "y", "R", "u", "l", "e", "D", "e", "t", "e", "c", "t", "o", "r", "/", "F", "a", "c", "e", "D", "e", "t", "e", "c", "t">>, "async_parse_face_detector">>,
    <<<<"t", "n", "s", "1", ":", "R", "u", "l", "e", "E", "n", "g", "i", "n", "e", "/", "M", "y", "R", "u", "l", "e", "D", "e", "t", "e", "c", "t", "o", "r", "/", "V", "i", "s", "i", "t", "o", "r">>, "async_parse_visitor_detector">>,
    <<<<"t", "n", "s", "1", ":", "D", "e", "v", "i", "c", "e", "/", "T", "r", "i", "g", "g", "e", "r", "/", "D", "i", "g", "i", "t", "a", "l", "I", "n", "p", "u", "t">>, "async_parse_digital_input">>,
    <<<<"t", "n", "s", "1", ":", "D", "e", "v", "i", "c", "e", "/", "T", "r", "i", "g", "g", "e", "r", "/", "R", "e", "l", "a", "y">>, "async_parse_relay">>,
    <<<<"t", "n", "s", "1", ":", "D", "e", "v", "i", "c", "e", "/", "H", "a", "r", "d", "w", "a", "r", "e", "F", "a", "i", "l", "u", "r", "e", "/", "S", "t", "o", "r", "a", "g", "e", "F", "a", "i", "l", "u", "r", "e">>, "async_parse_storage_failure">>,
    <<<<"t", "n", "s", "1", ":", "M", "o", "n", "i", "t", "o", "r", "i", "n", "g", "/", "P", "r", "o", "c", "e", "s", "s", "o", "r", "U", "s", "a", "g", "e">>, "async_parse_processor_usage">>,
    <<<<"t", "n", "s", "1", ":", "M", "o", "n", "i", "t", "o", "r", "i", "n", "g", "/", "O", "p", "e", "r", "a", "t", "i", "n", "g", "T", "i", "m", "e", "/", "L", "a", "s", "t", "R", "e", "b", "o", "o", "t">>, "async_parse_last_reboot">>,
    <<<<"t", "n", "s", "1", ":", "M", "o", "n", "i", "t", "o", "r", "i", "n", "g", "/", "O", "p", "e", "r", "a", "t", "i", "n", "g", "T", "i", "m", "e", "/", "L", "a", "s", "t", "R", "e", "s", "e", "t">>, "async_parse_last_reset">>,
    <<<<"t", "n", "s", "1", ":", "M", "o", "n", "i", "t", "o", "r", "i", "n", "g", "/", "B", "a", "c", "k", "u", "p", "/", "L", "a", "s", "t">>, "async_parse_backup_last">>,
    <<<<"t", "n", "s", "1", ":", "M", "o", "n", "i", "t", "o", "r", "i", "n", "g", "/", "O", "p", "e", "r", "a", "t", "i", "n", "g", "T", "i", "m", "e", "/", "L", "a", "s", "t", "C", "l", "o", "c", "k", "S", "y", "n", "c", "h", "r", "o", "n", "i", "z", "a", "t", "i", "o", "n">>, "async_parse_last_clock_sync">>,
    <<<<"t", "n", "s", "1", ":", "R", "e", "c", "o", "r", "d", "i", "n", "g", "C", "o", "n", "f", "i", "g", "/", "J", "o", "b", "S", "t", "a", "t", "e">>, "async_parse_jobstate">>,
    <<<<"t", "n", "s", "1", ":", "R", "u", "l", "e", "E", "n", "g", "i", "n", "e", "/", "L", "i", "n", "e", "D", "e", "t", "e", "c", "t", "o", "r", "/", "C", "r", "o", "s", "s", "e", "d">>, "async_parse_linedetector_crossed">>,
    <<<<"t", "n", "s", "1", ":", "R", "u", "l", "e", "E", "n", "g", "i", "n", "e", "/", "C", "o", "u", "n", "t", "A", "g", "g", "r", "e", "g", "a", "t", "i", "o", "n", "/", "C", "o", "u", "n", "t", "e", "r">>, "async_parse_count_aggregation_counter">>
    >>

\* Registry.register(name)(func): self[name] = func
Register(registry, name, func) ==
    [t \in DOMAIN registry \cup {name} |-> IF t = name THEN func ELSE registry[t]]

RECURSIVE RegisterAll(_, _, _)
RegisterAll(registrations, i, registry) ==
    IF i > Len(registrations) THEN registry
    ELSE RegisterAll(registrations, i + 1,
                     Register(registry, registrations[i][1], registrations[i][2]))

EmptyRegistry == [t \in {} |-> ""]

\* PARSERS.get(topic): <<parser>>, or <<>> when the topic is no key
Lookup(topic) == IF topic \in DOMAIN PARSERS THEN <<PARSERS[topic]>> ELSE <<>>

ParserNames == {REGISTRATIONS[i][2] : i \in DOMAIN REGISTRATIONS}

\* await parser(uid, msg)
Call(parser, uid, msg) ==
    CASE parser = "async_parse_motion_alarm" -> async_parse_motion_alarm(uid, msg)
      [] parser = "async_parse_image_too_blurry" -> async_parse_image_too_blurry(uid, msg)
      [] parser = "async_parse_image_too_dark" -> async_parse_image_too_dark(uid, msg)
      [] parser = "async_parse_image_too_bright" -> async_parse_image_too_bright(uid, msg)
      [] parser = "async_parse_scene_change" -> async_parse_scene_change(uid, msg)
      [] parser = "async_parse_detected_sound" -> async_parse_detected_sound(uid, msg)
      [] parser = "async_parse_field_detector" -> async_parse_field_detector(uid, msg)
      [] parser = "async_parse_cell_motion_detector" ->
             async_parse_cell_motion_detector(uid, msg)
      [] parser = "async_parse_motion_region_detector" ->
             async_parse_motion_region_detector(uid, msg)
      [] parser = "async_parse_tamper_detector" -> async_parse_tamper_detector(uid, msg)
      [] parser = "async_parse_dog_cat_detector" -> async_parse_dog_cat_detector(uid, msg)
      [] parser = "async_parse_vehicle_detector" -> async_parse_vehicle_detector(uid, msg)
      [] parser = "async_parse_person_detector" -> async_parse_person_detector(uid, msg)
      [] parser = "async_parse_face_detector" -> async_parse_face_detector(uid, msg)
      [] parser = "async_parse_visitor_detector" -> async_parse_visitor_detector(uid, msg)
      [] parser = "async_parse_digital_input" -> async_parse_digital_input(uid, msg)
      [] parser = "async_parse_relay" -> async_parse_relay(uid, msg)
      [] parser = "async_parse_storage_failure" -> async_parse_storage_failure(uid, msg)
      [] parser = "async_parse_processor_usage" -> async_parse_processor_usage(uid, msg)
      [] parser = "async_parse_last_reboot" -> async_parse_last_reboot(uid, msg)
      [] parser = "async_parse_last_reset" -> async_parse_last_reset(uid, msg)
      [] parser = "async_parse_backup_last" -> async_parse_backup_last(uid, msg)
      [] parser = "async_parse_last_clock_sync" -> async_parse_last_clock_sync(uid, msg)
      [] parser = "async_parse_jobstate" -> async_parse_jobstate(uid, msg)
      [] parser = "async_parse_linedetector_crossed" ->
             async_parse_linedetector_crossed(uid, msg)
      [] parser = "async_parse_count_aggregation_counter" ->
             async_parse_count_aggregation_counter(uid, msg)

-----------------------------------------------------------------------------
(* The Withings config flow.  The flow handler is the integration's; the   *)
(* tests start a flow, answer its steps and mock the token endpoint.       *)

\* conftest.USER_ID, the user of the config_entry fixture
USER_ID == 12345

\* the userid values the token endpoint answers with
UserIds == {USER_ID, 600, 12346}

DecimalDigits == <<"0", "1", "2", "3", "4", "5", "6", "7", "8", "9">>

\* str(userid)
RECURSIVE IntToStr(_)
IntToStr(n) ==
    IF n < 10 THEN <<DecimalDigits[n + 1]>>
    ELSE IntToStr(n \div 10) \o <<DecimalDigits[(n % 10) + 1]>>

\* the access and refresh token of a token response
TokenPairs ==
    {[access_token |-> "mock-access-token", refresh_token |-> "mock-refresh-token"],
     [access_token |-> "renewed-access-token", refresh_token |-> "renewed-refresh-token"]}

\* the body the mocked https://wbsapi.withings.net/v2/oauth2 answers with
TokenResponse(userid, pair) ==
    [refresh_token |-> pair.refresh_token, access_token |-> pair.access_token,
     type |-> "Bearer", expires_in |-> 60, userid |-> userid]

TokenResponses == {TokenResponse(u, pair) : u \in UserIds, pair \in TokenPairs}

NoResponse == [refresh_token |-> "", access_token |-> "", type |-> "", expires_in |-> 0,
               userid |-> 0]

ConfigEntry(unique_id, token) ==
    [unique_id |-> unique_id, title |-> "Withings", data |-> [token |-> token]]

\* the config_entry fixture that setup_integration adds
FixtureEntry ==
    ConfigEntry(IntToStr(USER_ID),
                TokenResponse(USER_ID, [access_token |-> "mock-access-token",
                                        refresh_token |-> "mock-refresh-token"]))

(* Flow results: type, and the step_id, reason or config entry that goes with it. *)
FlowResult(type, step_id, reason, result) ==
    [type |-> type, step_id |-> step_id, reason |-> reason, result |-> result]

NoResult == FlowResult("", "", "", <<>>)

ExternalStep == FlowResult("external", "auth", "", <<>>)

ExternalStepDone == FlowResult("external_done", "creation", "", <<>>)

Form(step_id) == FlowResult("form", step_id, "", <<>>)

Abort(reason) == FlowResult("abort", "", reason, <<>>)

CreateEntry(entry) == FlowResult("create_entry", "", "", <<entry>>)

\* a flow: the step it waits in, the context's source, the unique_id of the entry to
\* reauthenticate (none: <<>>), the token response it got, and its last result
Flow(step, source, reauth_entry, response, result) ==
    [step |-> step, source |-> source, reauth_entry |-> reauth_entry,
     response |-> response, result |-> result]

NoFlow == Flow("none", "", <<>>, NoResponse, NoResult)

\* the config entries with the data of the reauthenticated entry replaced
UpdateEntry(unique_id, token) ==
    {IF e.unique_id = unique_id THEN ConfigEntry(unique_id, token) ELSE e : e \in entries}

\* a flow handler that creates the entry without _abort_if_unique_id_configured
async_oauth_create_entry_no_abort(reauth_entry, token) ==
    LET user_id == IntToStr(token.userid)
    IN  IF reauth_entry = <<>>
        THEN [result |-> CreateEntry(ConfigEntry(user_id, token)),
              entries |-> {e \in entries : e.unique_id # user_id}
                          \cup {ConfigEntry(user_id, token)}]
        ELSE IF reauth_entry[1] = user_id
        THEN [result |-> Abort("reauth_successful"),
              entries |-> UpdateEntry(user_id, token)]
        ELSE [result |-> Abort("wrong_account"), entries |-> entries]

\* a flow handler that reauthenticates without comparing the userid with the entry's
async_oauth_create_entry_any_account(reauth_entry, token) ==
    LET user_id == IntToStr(token.userid)
    IN  IF reauth_entry = <<>>
        THEN IF \E e \in entries : e.unique_id = user_id
             THEN [result |-> Abort("already_configured"), entries |-> entries]
             ELSE [result |-> CreateEntry(ConfigEntry(user_id, token)),
                   entries |-> entries \cup {ConfigEntry(user_id, token)}]
        ELSE [result |-> Abort("reauth_successful"),
              entries |-> UpdateEntry(reauth_entry[1], token)]

\* async_oauth_create_entry(data): the end of the flow, given the token response.
\* A user flow sets the userid as unique id, aborts when an entry has it and creates the
\* entry otherwise; a reauth flow compares the userid with the unique id of its entry.
async_oauth_create_entry(reauth_entry, token) ==
    LET user_id == IntToStr(token.userid)
    IN  IF reauth_entry = <<>>
        THEN IF \E e \in entries : e.unique_id = user_id
             THEN [result |-> Abort("already_configured"), entries |-> entries]
             ELSE [result |-> CreateEntry(ConfigEntry(user_id, token)),
                   entries |-> entries \cup {ConfigEntry(user_id, token)}]
        ELSE IF reauth_entry[1] = user_id
        THEN [result |-> Abort("reauth_successful"),
              entries |-> UpdateEntry(user_id, token)]
        ELSE [result |-> Abort("wrong_account"), entries |-> entries]

-----------------------------------------------------------------------------
(* The notifications a device sends: well-formed messages of its topics    *)
(* with several Source and Data values, and every malformed shape of them. *)

DeviceUids == {<<"c", "a", "m", "1">>, <<"c", "a", "m", "2">>}

Data(value) == Items(<<Item(<<"S", "t", "a", "t", "e">>, value)>>)

\* the shapes with a part of the message missing; bad_items is a Source list whose
\* items lack a Name or a Value
MalformedMessages(source, bad_items) ==
    {MsgNoMessage, MsgNoValue1}
    \cup {Msg(s, Data(PyStr(<<"t", "r", "u", "e">>))) : s \in {Missing, NoSimpleItem} \cup bad_items}
    \cup {Msg(source, d) : d \in {Missing, NoSimpleItem, Items(<<>>),
                                  Items(<<ItemNoValue(<<"S", "t", "a", "t", "e">>)>>)}}

AnchorSource == Items(<<Item(<<"V", "i", "d", "e", "o", "S", "o", "u", "r", "c", "e", "T", "o", "k", "e", "n">>, PyStr(<<"v", "1">>))>>)

AnchorMessages ==
    {Msg(AnchorSource, Data(v)) :
        v \in {PyStr(<<"t", "r", "u", "e">>), PyStr(<<"f", "a", "l", "s", "e">>), PyStr(<<"a", "c", "t", "i", "v", "e">>), PyNone}}
    \cup MalformedMessages(AnchorSource,
                           {Items(<<>>), Items(<<ItemNoValue(<<"V", "i", "d", "e", "o", "S", "o", "u", "r", "c", "e", "T", "o", "k", "e", "n">>)>>)})

RuleSource(source_name, analytics_name, source, rule) ==
    Items(<<Item(source_name, PyStr(source)), Item(analytics_name, PyStr(<<"v", "a">>)),
            Item(<<"R", "u", "l", "e">>, PyStr(rule))>>)

RuleMessages(source_name, analytics_name) ==
    {Msg(RuleSource(source_name, analytics_name, <<"v", "s", "c", "o", "n", "f">>, <<"r", "1">>), Data(PyStr(v))) :
        v \in {<<"t", "r", "u", "e">>, <<"f", "a", "l", "s", "e">>, <<"1">>}}
    \cup {Msg(RuleSource(source_name, analytics_name, <<"v", "s", "c", "o", "n", "f">>, <<"r", "2">>), Data(PyStr(<<"t", "r", "u", "e">>))),
          Msg(RuleSource(source_name, analytics_name, <<"v", "1">>, <<"r", "1">>), Data(PyStr(<<"t", "r", "u", "e">>))),
          Msg(Items(<<>>), Data(PyStr(<<"t", "r", "u", "e">>))),
          Msg(Items(<<Item(<<"R", "u", "l", "e">>, PyStr(<<"r", "1">>))>>), Data(PyStr(<<"t", "r", "u", "e">>))),
          Msg(Items(<<Item(<<"O", "t", "h", "e", "r">>, PyStr(<<"x">>))>>), Data(PyStr(<<"t", "r", "u", "e">>)))}
    \cup {Msg(Items(<<Item(source_name, PyStr(t[1])), Item(analytics_name, PyStr(t[2])),
                      Item(<<"R", "u", "l", "e">>, PyStr(<<"r", "1">>))>>), Data(PyStr(<<"t", "r", "u", "e">>))) :
              t \in {<<<<"a", "_", "b">>, <<"c">>>>, <<<<"a">>, <<"b", "_", "c">>>>, <<<<>>, <<"c">>>>}}
    \cup MalformedMessages(RuleSource(source_name, analytics_name, <<"v", "s", "c", "o", "n", "f">>, <<"r", "1">>),
                           {Items(<<ItemNoValue(<<"R", "u", "l", "e">>)>>),
                            Items(<<ItemNoName(PyStr(<<"r", "1">>))>>)})

MyRuleMessages ==
    {Msg(Items(<<Item(<<"S", "o", "u", "r", "c", "e">>, PyStr(s))>>), Data(PyStr(v))) :
        s \in {<<"v", "s", "c", "o", "n", "f">>, <<"v", "1">>}, v \in {<<"t", "r", "u", "e">>, <<"f", "a", "l", "s", "e">>}}
    \cup {Msg(Items(<<>>), Data(PyStr(<<"t", "r", "u", "e">>))),
          Msg(Items(<<Item(<<"R", "u", "l", "e">>, PyStr(<<"r", "1">>))>>), Data(PyStr(<<"t", "r", "u", "e">>)))}
    \cup MalformedMessages(Items(<<Item(<<"S", "o", "u", "r", "c", "e">>, PyStr(<<"v", "s", "c", "o", "n", "f">>))>>),
                           {Items(<<ItemNoValue(<<"S", "o", "u", "r", "c", "e">>)>>),
                            Items(<<ItemNoName(PyStr(<<"v", "1">>))>>)})

\* the parsers that read only Data.SimpleItem[0].Value: no shape of Source is malformed
DataOnlyMessages(values) ==
    {Msg(Missing, Data(v)) : v \in values}
    \cup {MsgNoMessage, MsgNoValue1}
    \cup {Msg(Missing, d) : d \in {Missing, NoSimpleItem, Items(<<>>),
                                   Items(<<ItemNoValue(<<"S", "t", "a", "t", "e">>)>>)}}

ProcessorMessages ==
    DataOnlyMessages({PyStr(<<"0", ".", "4", "2">>), PyStr(<<"1">>), PyStr(<<"7", "7">>), PyStr(<<"0", ".", "4", "2", "5">>),
                      PyStr(<<"1", ".", "5">>), PyStr(<<"-", "0", ".", "5">>), PyStr(<<"a", "b", "c">>), PyNone})
    \cup {Msg(AnchorSource, Data(PyStr(<<"0", ".", "4", "2">>)))}

TimestampMessages ==
    DataOnlyMessages({PyStr(<<"2", "0", "2", "1", "-", "0", "3", "-", "0", "4", "T", "0", "5", ":", "0", "6", ":", "0", "7", "Z">>), PyStr(<<"2", "0", "2", "4", "-", "0", "2", "-", "2", "9", "T", "2", "3", ":", "5", "9", ":", "5", "9", "Z">>),
                      PyStr(<<"0", "0", "0", "0", "-", "0", "0", "-", "0", "0", "T", "0", "0", ":", "0", "0", ":", "0", "0", "Z">>), PyStr(<<"n", "e", "v", "e", "r">>)})
    \cup {Msg(AnchorSource, Data(PyStr(<<"2", "0", "2", "1", "-", "0", "3", "-", "0", "4", "T", "0", "5", ":", "0", "6", ":", "0", "7", "Z">>)))}

MessagesFor(parser) ==
    IF parser \in {"async_parse_motion_alarm", "async_parse_image_too_blurry",
                   "async_parse_image_too_dark", "async_parse_image_too_bright",
                   "async_parse_scene_change", "async_parse_digital_input",
                   "async_parse_relay", "async_parse_storage_failure"}
    THEN AnchorMessages
    ELSE IF parser = "async_parse_jobstate"
    THEN AnchorMessages \cup {Msg(AnchorSource, Data(PyStr(<<"A", "c", "t", "i", "v", "e">>)))}
    ELSE IF parser = "async_parse_detected_sound"
    THEN RuleMessages(<<"A", "u", "d", "i", "o", "S", "o", "u", "r", "c", "e", "C", "o", "n", "f", "i", "g", "u", "r", "a", "t", "i", "o", "n", "T", "o", "k", "e", "n">>, <<"A", "u", "d", "i", "o", "A", "n", "a", "l", "y", "t", "i", "c", "s", "C", "o", "n", "f", "i", "g", "u", "r", "a", "t", "i", "o", "n", "T", "o", "k", "e", "n">>)
    ELSE IF parser \in {"async_parse_field_detector", "async_parse_cell_motion_detector",
                        "async_parse_motion_region_detector", "async_parse_tamper_detector",
                        "async_parse_linedetector_crossed",
                        "async_parse_count_aggregation_counter"}
    THEN RuleMessages(<<"V", "i", "d", "e", "o", "S", "o", "u", "r", "c", "e", "C", "o", "n", "f", "i", "g", "u", "r", "a", "t", "i", "o", "n", "T", "o", "k", "e", "n">>, <<"V", "i", "d", "e", "o", "A", "n", "a", "l", "y", "t", "i", "c", "s", "C", "o", "n", "f", "i", "g", "u", "r", "a", "t", "i", "o", "n", "T", "o", "k", "e", "n">>)
    ELSE IF parser \in {"async_parse_dog_cat_detector", "async_parse_vehicle_detector",
                        "async_parse_person_detector", "async_parse_face_detector",
                        "async_parse_visitor_detector"}
    THEN MyRuleMessages
    ELSE IF parser = "async_parse_processor_usage"
    THEN ProcessorMessages
    ELSE TimestampMessages

Notification(topic, msg) == [topic |-> topic, msg |-> msg]

\* the topic a parser is first registered under, and the other topics it is registered under
FirstTopic(parser) ==
    REGISTRATIONS[CHOOSE i \in DOMAIN REGISTRATIONS :
                      /\ REGISTRATIONS[i][2] = parser
                      /\ \A j \in 1..(i - 1) : REGISTRATIONS[j][2] # parser][1]

OtherTopics(parser) ==
    {REGISTRATIONS[i][1] : i \in {j \in DOMAIN REGISTRATIONS : REGISTRATIONS[j][2] = parser}}
        \ {FirstTopic(parser)}

\* notifications every device sends besides those of its own topics: two topics that are
\* not registered, a motion alarm, and a processor usage that is not a number
CommonNotifications ==
    {Notification(<<"t", "n", "s", "1", ":", "V", "i", "d", "e", "o", "S", "o", "u", "r", "c", "e", "/", "I", "m", "a", "g", "e", "T", "o", "o", "B", "l", "u", "r", "r", "y">>, Msg(AnchorSource, Data(PyStr(<<"t", "r", "u", "e">>)))),
     Notification(<<"t", "n", "s", "1", ":", "D", "e", "v", "i", "c", "e", "/", "U", "n", "k", "n", "o", "w", "n">>, Msg(AnchorSource, Data(PyStr(<<"t", "r", "u", "e">>)))),
     Notification(<<"t", "n", "s", "1", ":", "V", "i", "d", "e", "o", "S", "o", "u", "r", "c", "e", "/", "M", "o", "t", "i", "o", "n", "A", "l", "a", "r", "m">>, Msg(AnchorSource, Data(PyStr(<<"t", "r", "u", "e">>)))),
     Notification(<<"t", "n", "s", "1", ":", "M", "o", "n", "i", "t", "o", "r", "i", "n", "g", "/", "P", "r", "o", "c", "e", "s", "s", "o", "r", "U", "s", "a", "g", "e">>, Msg(Missing, Data(PyStr(<<"a", "b", "c">>))))}

Feed(parser) ==
    {Notification(FirstTopic(parser), m) : m \in MessagesFor(parser)}
    \cup {Notification(t, m) : t \in OtherTopics(parser),
                               m \in {Msg(AnchorSource, Data(PyStr(<<"t", "r", "u", "e">>))),
                                      Msg(AnchorSource, Data(PyStr(<<"f", "a", "l", "s", "e">>))),
                                      Msg(Items(<<>>), Data(PyStr(<<"t", "r", "u", "e">>)))}}
    \cup CommonNotifications

-----------------------------------------------------------------------------
(* What a call of a parser leaves in VIDEO_SOURCE_MAPPING: the parsers     *)
(* touch the table only through _normalize_video_source, once for each     *)
(* Source item with the name they normalize, until the loop ends or an     *)
(* item without Name or Value raises.                                      *)

RECURSIVE MappingAfterScan(_, _, _, _, _)
MappingAfterScan(items, i, mapping, normalized_name, other_names) ==
    IF i > Len(items) THEN mapping
    ELSE IF ~Has(items[i].Name) THEN mapping
    ELSE IF PyEq(items[i].Name[1], normalized_name)
         THEN IF ~Has(items[i].Value) THEN mapping
              ELSE MappingAfterScan(items, i + 1,
                                    MappingAfterNormalize(mapping, items[i].Value[1]),
                                    normalized_name, other_names)
    ELSE IF (\E name \in other_names : PyEq(items[i].Name[1], name)) /\ ~Has(items[i].Value)
         THEN mapping
    ELSE MappingAfterScan(items, i + 1, mapping, normalized_name, other_names)

MappingAfterCall(parser, msg) ==
    LET value_1 == Value1(msg)
    IN  IF value_1.exc # "" THEN VIDEO_SOURCE_MAPPING
        ELSE IF ~Has(value_1.v.Source) THEN VIDEO_SOURCE_MAPPING
        ELSE IF ~Has(value_1.v.Source[1].SimpleItem) THEN VIDEO_SOURCE_MAPPING
        ELSE IF parser \in {"async_parse_field_detector", "async_parse_cell_motion_detector",
                            "async_parse_motion_region_detector",
                            "async_parse_tamper_detector",
                            "async_parse_count_aggregation_counter"}
        THEN MappingAfterScan(value_1.v.Source[1].SimpleItem[1], 1, VIDEO_SOURCE_MAPPING,
                              <<"V", "i", "d", "e", "o", "S", "o", "u", "r", "c", "e", "C", "o", "n", "f", "i", "g", "u", "r", "a", "t", "i", "o", "n", "T", "o", "k", "e", "n">>,
                              {<<"V", "i", "d", "e", "o", "A", "n", "a", "l", "y", "t", "i", "c", "s", "C", "o", "n", "f", "i", "g", "u", "r", "a", "t", "i", "o", "n", "T", "o", "k", "e", "n">>, <<"R", "u", "l", "e">>})
        ELSE IF parser \in {"async_parse_dog_cat_detector", "async_parse_vehicle_detector",
                            "async_parse_person_detector", "async_parse_face_detector",
                            "async_parse_visitor_detector"}
        THEN MappingAfterScan(value_1.v.Source[1].SimpleItem[1], 1, VIDEO_SOURCE_MAPPING,
                              <<"S", "o", "u", "r", "c", "e">>, {})
        ELSE VIDEO_SOURCE_MAPPING

-----------------------------------------------------------------------------
(* The dispatch loop: the registry is built when the module is loaded;     *)
(* each notification is looked up by its topic and handed to the parser.   *)

NoOutcome == [kind |-> "noparser", exc |-> "", event |-> NoEvent]

NoEntry ==
    [dispatched |-> FALSE, topic |-> <<>>, msg |-> MsgNoMessage, parser |-> "",
     out |-> NoOutcome]

\* the number of invocations a concurrent caller keeps in flight
MaxTasks == 2

TaskIds == 1..MaxTasks

IdleTask ==
    [pc |-> "idle", topic |-> <<>>, msg |-> MsgNoMessage, parser |-> "", out |-> NoOutcome]

Init ==
    /\ PARSERS = RegisterAll(REGISTRATIONS, 1, EmptyRegistry)
    /\ VIDEO_SOURCE_MAPPING = [source \in {<<"v", "s", "c", "o", "n", "f">>} |-> <<"V", "i", "d", "e", "o", "S", "o", "u", "r", "c", "e", "T", "o", "k", "e", "n">>]
    /\ device_uid \in DeviceUids
    /\ emits \in ParserNames
    /\ loop = "running"
    /\ prev = NoEntry
    /\ last = NoEntry
    /\ tasks = [t \in TaskIds |-> IdleTask]
    /\ entries = {}
    /\ flow = NoFlow

\* one notification: parser = PARSERS.get(topic); event = await parser(uid, msg).
\* An exception that leaves the parser leaves the loop.
Dispatch(n) ==
    /\ loop = "running"
    /\ LET found == Lookup(n.topic)
           out == IF found = <<>> THEN NoOutcome ELSE Call(found[1], device_uid, n.msg)
       IN  /\ last' = [dispatched |-> TRUE, topic |-> n.topic, msg |-> n.msg,
                       parser |-> IF found = <<>> THEN "" ELSE found[1], out |-> out]
           /\ loop' = IF out.kind = "raise" THEN "crashed" ELSE "running"
           /\ VIDEO_SOURCE_MAPPING' = IF found = <<>> THEN VIDEO_SOURCE_MAPPING
                                      ELSE MappingAfterCall(found[1], n.msg)
    /\ prev' = last
    /\ UNCHANGED <<PARSERS, device_uid, emits, tasks, withings_vars>>

Next == \E n \in Feed(emits) : Dispatch(n)

Spec == Init /\ [][Next]_vars

-----------------------------------------------------------------------------
(* A caller that dispatches concurrently: it creates one task for each     *)
(* notification and awaits them together.  The parser coroutines contain   *)
(* no await, so a task, once the event loop runs it, runs to its return    *)
(* or its exception without another task in between; the tasks interleave  *)
(* in the order the loop creates, runs and collects them.  An exception    *)
(* stays in the task that raised it.                                       *)

ConcurrentParsers ==
    {"async_parse_detected_sound", "async_parse_field_detector", "async_parse_dog_cat_detector"}

ConcurrentMessages(parser) ==
    (IF parser = "async_parse_detected_sound"
     THEN {Msg(RuleSource(<<"A", "u", "d", "i", "o", "S", "o", "u", "r", "c", "e", "C", "o", "n", "f", "i", "g", "u", "r", "a", "t", "i", "o", "n", "T", "o", "k", "e", "n">>,
                          <<"A", "u", "d", "i", "o", "A", "n", "a", "l", "y", "t", "i", "c", "s", "C", "o", "n", "f", "i", "g", "u", "r", "a", "t", "i", "o", "n", "T", "o", "k", "e", "n">>, s, <<"r", "1">>),
               Data(PyStr(<<"t", "r", "u", "e">>))) : s \in {<<"v", "s", "c", "o", "n", "f">>, <<"v", "1">>}}
     ELSE IF parser = "async_parse_field_detector"
     THEN {Msg(RuleSource(<<"V", "i", "d", "e", "o", "S", "o", "u", "r", "c", "e", "C", "o", "n", "f", "i", "g", "u", "r", "a", "t", "i", "o", "n", "T", "o", "k", "e", "n">>,
                          <<"V", "i", "d", "e", "o", "A", "n", "a", "l", "y", "t", "i", "c", "s", "C", "o", "n", "f", "i", "g", "u", "r", "a", "t", "i", "o", "n", "T", "o", "k", "e", "n">>, s, <<"r", "1">>),
               Data(PyStr(<<"t", "r", "u", "e">>))) : s \in {<<"v", "s", "c", "o", "n", "f">>, <<"v", "1">>}}
     ELSE {Msg(Items(<<Item(<<"S", "o", "u", "r", "c", "e">>, PyStr(s))>>), Data(PyStr(<<"t", "r", "u", "e">>))) :
               s \in {<<"v", "s", "c", "o", "n", "f">>, <<"v", "1">>}})
    \cup {Msg(Items(<<>>), Data(PyStr(<<"t", "r", "u", "e">>))), MsgNoMessage}

ConcurrentFeed(parser) ==
    {Notification(FirstTopic(parser), m) : m \in ConcurrentMessages(parser)}
    \cup {Notification(<<"t", "n", "s", "1", ":", "M", "o", "n", "i", "t", "o", "r", "i", "n", "g", "/", "P", "r", "o", "c", "e", "s", "s", "o", "r", "U", "s", "a", "g", "e">>, Msg(Missing, Data(PyStr(<<"a", "b", "c">>))))}

InitConcurrent == Init /\ emits \in ConcurrentParsers

\* the caller: parser = PARSERS.get(topic); task = create_task(parser(uid, msg))
Submit(t, n) ==
    /\ tasks[t].pc = "idle"
    /\ Lookup(n.topic) # <<>>
    /\ tasks' = [tasks EXCEPT ![t] = [pc |-> "pending", topic |-> n.topic, msg |-> n.msg,
                                      parser |-> Lookup(n.topic)[1], out |-> NoOutcome]]
    /\ UNCHANGED <<PARSERS, VIDEO_SOURCE_MAPPING, device_uid, emits, loop, prev, last,
                   withings_vars>>

\* the event loop runs the task: the parser runs to its end
Run(t) ==
    /\ tasks[t].pc = "pending"
    /\ LET out == Call(tasks[t].parser, device_uid, tasks[t].msg)
       IN  /\ tasks' = [tasks EXCEPT ![t].pc = "done", ![t].out = out]
           /\ last' = [dispatched |-> TRUE, topic |-> tasks[t].topic, msg |-> tasks[t].msg,
                       parser |-> tasks[t].parser, out |-> out]
    /\ VIDEO_SOURCE_MAPPING' = MappingAfterCall(tasks[t].parser, tasks[t].msg)
    /\ UNCHANGED <<PARSERS, device_uid, emits, loop, prev, withings_vars>>

\* the caller takes the result of the finished task
Collect(t) ==
    /\ tasks[t].pc = "done"
    /\ tasks' = [tasks EXCEPT ![t] = IdleTask]
    /\ UNCHANGED <<PARSERS, VIDEO_SOURCE_MAPPING, device_uid, emits, loop, prev, last,
                   withings_vars>>

NextConcurrent ==
    \E t \in TaskIds :
        \/ \E n \in ConcurrentFeed(emits) : Submit(t, n)
        \/ Run(t)
        \/ Collect(t)

SpecConcurrent == InitConcurrent /\ [][NextConcurrent]_vars

-----------------------------------------------------------------------------
(* The steps of a config flow, in the order the tests take them.  A flow   *)
(* that has ended leaves the flow manager, and another may be started.     *)

InitWithings ==
    /\ PARSERS = RegisterAll(REGISTRATIONS, 1, EmptyRegistry)
    /\ VIDEO_SOURCE_MAPPING = [source \in {<<"v", "s", "c", "o", "n", "f">>} |-> <<"V", "i", "d", "e", "o", "S", "o", "u", "r", "c", "e", "T", "o", "k", "e", "n">>]
    /\ device_uid = <<"c", "a", "m", "1">>
    /\ emits = "async_parse_motion_alarm"
    /\ loop = "running"
    /\ prev = NoEntry
    /\ last = NoEntry
    /\ tasks = [t \in TaskIds |-> IdleTask]
    /\ entries \in {{}, {FixtureEntry}}
    /\ flow = NoFlow

\* hass.config_entries.flow.async_init(DOMAIN, context={"source": SOURCE_USER}):
\* the flow goes to the OAuth step and shows the authorize URL
async_init_user ==
    /\ flow.step \in {"none", "finished"}
    /\ flow' = Flow("auth", "user", <<>>, NoResponse, ExternalStep)
    /\ UNCHANGED <<entries, onvif_vars>>

\* async_init(DOMAIN, context={"source": SOURCE_REAUTH, "entry_id": ...}, data=...):
\* async_step_reauth remembers the entry and shows the form reauth_confirm
async_init_reauth(entry) ==
    /\ flow.step \in {"none", "finished"}
    /\ entry \in entries
    /\ flow' = Flow("reauth_confirm", "reauth", <<entry.unique_id>>, NoResponse,
                    Form("reauth_confirm"))
    /\ UNCHANGED <<entries, onvif_vars>>

\* async_configure(flow_id, {}) on the form: async_step_reauth_confirm goes on to the
\* OAuth step
async_step_reauth_confirm ==
    /\ flow.step = "reauth_confirm"
    /\ flow' = [flow EXCEPT !.step = "auth", !.result = ExternalStep]
    /\ UNCHANGED <<entries, onvif_vars>>

\* GET /auth/external/callback?code=abcd&state=...: the flow has its authorization code
external_callback ==
    /\ flow.step = "auth"
    /\ flow' = [flow EXCEPT !.step = "creation", !.result = ExternalStepDone]
    /\ UNCHANGED <<entries, onvif_vars>>

\* async_configure(flow_id) after the callback: the code is exchanged for the token
\* response and async_oauth_create_entry ends the flow
async_step_creation(token) ==
    /\ flow.step = "creation"
    /\ LET end == async_oauth_create_entry(flow.reauth_entry, token)
       IN  /\ flow' = [flow EXCEPT !.step = "finished", !.response = token,
                                   !.result = end.result]
           /\ entries' = end.entries
    /\ UNCHANGED onvif_vars

NextWithings ==
    \/ async_init_user
    \/ \E entry \in entries : async_init_reauth(entry)
    \/ async_step_reauth_confirm
    \/ external_callback
    \/ \E token \in TokenResponses : async_step_creation(token)

SpecWithings == InitWithings /\ [][NextWithings]_vars
-----------------------------------------------------------------------------
(* What the properties below speak about.                                  *)

HasPayload(msg) == Has(msg.Message) /\ Has(msg.Message[1].value_1)

PayloadOf(msg) == msg.Message[1].value_1[1]

HasItems(container) == Has(container) /\ Has(container[1].SimpleItem)

ItemsOf(container) == container[1].SimpleItem[1]

\* container.SimpleItem[0].Value cannot be read
Index0Missing(container) ==
    \/ ~HasItems(container)
    \/ Len(ItemsOf(container)) = 0
    \/ ~Has(ItemsOf(container)[1].Value)

SourceAnchorParsers ==
    {"async_parse_motion_alarm", "async_parse_image_too_blurry",
     "async_parse_image_too_dark", "async_parse_image_too_bright",
     "async_parse_scene_change", "async_parse_digital_input", "async_parse_relay",
     "async_parse_storage_failure", "async_parse_jobstate"}

TimestampParsers ==
    {"async_parse_last_reboot", "async_parse_last_reset", "async_parse_backup_last",
     "async_parse_last_clock_sync"}

MyRuleParsers ==
    {"async_parse_dog_cat_detector", "async_parse_vehicle_detector",
     "async_parse_person_detector", "async_parse_face_detector",
     "async_parse_visitor_detector"}

VideoRuleParsers ==
    {"async_parse_field_detector", "async_parse_cell_motion_detector",
     "async_parse_motion_region_detector", "async_parse_tamper_detector",
     "async_parse_linedetector_crossed", "async_parse_count_aggregation_counter"}

RuleParsers == VideoRuleParsers \cup {"async_parse_detected_sound"}

\* the anchor field of the parser is missing from the message
AnchorMissing(parser, msg) ==
    \/ ~HasPayload(msg)
    \/ parser \in SourceAnchorParsers /\ Index0Missing(PayloadOf(msg).Source)
    \/ Index0Missing(PayloadOf(msg).Data)

Parsed(entry) == entry.dispatched /\ entry.parser # ""

GaveEvent(entry) == entry.dispatched /\ entry.out.kind = "event"

DataValue(entry) == ItemsOf(PayloadOf(entry.msg).Data)[1].Value[1]

\* the value of the last Source item with this name, the empty string when there is none
NamedValue(entry, name) ==
    LET items == ItemsOf(PayloadOf(entry.msg).Source)
        found == {i \in 1..Len(items) : PyEq(items[i].Name[1], name)}
    IN  IF found = {} THEN <<>>
        ELSE Str(items[CHOOSE i \in found : \A j \in found : j <= i].Value[1])

EndsWith(chars, suffix) ==
    /\ Len(suffix) <= Len(chars)
    /\ SubSeq(chars, Len(chars) - Len(suffix) + 1, Len(chars)) = suffix

Canonical(token) == IF token = <<"v", "s", "c", "o", "n", "f">> THEN <<"V", "i", "d", "e", "o", "S", "o", "u", "r", "c", "e", "T", "o", "k", "e", "n">> ELSE token

-----------------------------------------------------------------------------
\* C1: a message whose anchor field is missing (an attribute absent, or the SimpleItem
\* list read at index 0 empty) makes the parser return None, never raise.
C1_MissingAnchorReturnsNone ==
    (Parsed(last) /\ AnchorMissing(last.parser, last.msg)) => last.out.kind = "none"

\* C2: no exception leaves a parser, whatever the shape of the message.
C2_NoExceptionLeavesParser ==
    Parsed(last) => last.out.kind # "raise"

\* C3: every parser that reads a video-source token puts the normalized token into the
\* uid: "vsconf" appears as "VideoSourceToken", any other token unchanged.
C3_TokenNormalizedInUid ==
    /\ (GaveEvent(last) /\ last.parser \in VideoRuleParsers) =>
           EndsWith(last.out.event.uid,
                    <<"_">> \o Canonical(NamedValue(last, <<"V", "i", "d", "e", "o", "S", "o", "u", "r", "c", "e", "C", "o", "n", "f", "i", "g", "u", "r", "a", "t", "i", "o", "n", "T", "o", "k", "e", "n">>))
                    \o <<"_">> \o NamedValue(last, <<"V", "i", "d", "e", "o", "A", "n", "a", "l", "y", "t", "i", "c", "s", "C", "o", "n", "f", "i", "g", "u", "r", "a", "t", "i", "o", "n", "T", "o", "k", "e", "n">>)
                    \o <<"_">> \o NamedValue(last, <<"R", "u", "l", "e">>))
    /\ (GaveEvent(last) /\ last.parser \in MyRuleParsers) =>
           EndsWith(last.out.event.uid, <<"_">> \o Canonical(NamedValue(last, <<"S", "o", "u", "r", "c", "e">>)))

\* C4: two notifications of the same device and topic with the same Source items give
\* Events with the same uid, whatever their Data values.
C4_UidStableAcrossData ==
    (/\ GaveEvent(prev) /\ GaveEvent(last)
     /\ prev.topic = last.topic
     /\ PayloadOf(prev.msg).Source = PayloadOf(last.msg).Source)
    => prev.out.event.uid = last.out.event.uid

\* two messages that differ in the value of an item named Rule and in nothing else
DifferOnlyInRule(m1, m2) ==
    /\ PayloadOf(m1).Data = PayloadOf(m2).Data
    /\ HasItems(PayloadOf(m1).Source) /\ HasItems(PayloadOf(m2).Source)
    /\ LET s1 == ItemsOf(PayloadOf(m1).Source)
           s2 == ItemsOf(PayloadOf(m2).Source)
       IN  /\ Len(s1) = Len(s2)
           /\ \A i \in 1..Len(s1) :
                  /\ s1[i].Name = s2[i].Name
                  /\ s1[i].Value # s2[i].Value => s1[i].Name = Some(PyStr(<<"R", "u", "l", "e">>))
           /\ \E i \in 1..Len(s1) : s1[i].Value # s2[i].Value

TrueParsers ==
    {"async_parse_motion_alarm", "async_parse_image_too_blurry",
     "async_parse_image_too_dark", "async_parse_image_too_bright",
     "async_parse_scene_change", "async_parse_detected_sound",
     "async_parse_field_detector", "async_parse_cell_motion_detector",
     "async_parse_tamper_detector"} \cup MyRuleParsers

\* the literals that make the Event value True, per parser
TrueLiterals(parser) ==
    IF parser = "async_parse_relay" THEN {<<"a", "c", "t", "i", "v", "e">>}
    ELSE IF parser = "async_parse_motion_region_detector" THEN {<<"1">>, <<"t", "r", "u", "e">>}
    ELSE {<<"t", "r", "u", "e">>}

\* every Source item has a Name and a Value, and Data.SimpleItem[0].Value is there
AllPresent(parser, msg) ==
    /\ ~AnchorMissing(parser, msg)
    /\ HasItems(PayloadOf(msg).Source)
    /\ \A i \in 1..Len(ItemsOf(PayloadOf(msg).Source)) :
           /\ Has(ItemsOf(PayloadOf(msg).Source)[i].Name)
           /\ Has(ItemsOf(PayloadOf(msg).Source)[i].Value)

\* C6: the Event value is True exactly when the Data value is one of the literals of the
\* parser ("true"; "active" for Relay; "1" or "true" for MotionRegionDetector); with any
\* other string the parser still returns an Event, with value False.
C6_BooleanCoercion ==
    (/\ Parsed(last)
     /\ last.parser \in TrueParsers
                        \cup {"async_parse_relay", "async_parse_motion_region_detector"}
     /\ AllPresent(last.parser, last.msg))
    => /\ last.out.kind = "event"
       /\ last.out.event.value.t = "bool"
       /\ last.out.event.value.b
              = (DataValue(last).t = "str" /\ DataValue(last).s \in TrueLiterals(last.parser))

C6_Witness ==
    /\ GaveEvent(last) /\ last.parser = "async_parse_relay"
    /\ DataValue(last) = PyStr(<<"t", "r", "u", "e">>)
    /\ last.out.event.value = BoolValue(FALSE)

\* C7: processor usage: a value <= 1 is multiplied by 100 and truncated, a value > 1
\* is only truncated (0.42 -> 42, 1 -> 100, 77 -> 77); the unit is percent.
C7_PercentRescaling ==
    (GaveEvent(last) /\ last.parser = "async_parse_processor_usage")
    => LET data == DataValue(last)
           usage == Float(data).v
           value == last.out.event.value
       IN  /\ last.out.event.unit = "percent"
           /\ value.t = "int"
           /\ value.n = IF usage <= 1000 THEN Truncate(usage * 100) ELSE Truncate(usage)
           /\ data = PyStr(<<"0", ".", "4", "2">>) => value.n = 42
           /\ data = PyStr(<<"1">>) => value.n = 100
           /\ data = PyStr(<<"7", "7">>) => value.n = 77

C7_Witness ==
    /\ GaveEvent(last) /\ last.parser = "async_parse_processor_usage"
    /\ DataValue(last) = PyStr(<<"1">>)
    /\ last.out.event.value = IntValue(100)

\* C8: a timestamp parser given a Data value string returns an Event: with value None
\* when the string fails datetime parsing (such as 0000-00-00T00:00:00Z), else with the
\* parsed instant in local time.
C8_UnparseableDatetimeGivesNullValue ==
    (/\ Parsed(last) /\ last.parser \in TimestampParsers
     /\ ~AnchorMissing(last.parser, last.msg)
     /\ DataValue(last).t = "str")
    => LET data == DataValue(last).s
           value == last.out.event.value
       IN  /\ last.out.kind = "event"
           /\ value.t \in {"NoneType", "datetime"}
           /\ value.t = "datetime" => value.z = "local"
           /\ data \in {<<"0", "0", "0", "0", "-", "0", "0", "-", "0", "0", "T", "0", "0", ":", "0", "0", ":", "0", "0", "Z">>, <<"n", "e", "v", "e", "r">>} => value = NoneValue
           /\ data = <<"2", "0", "2", "1", "-", "0", "3", "-", "0", "4", "T", "0", "5", ":", "0", "6", ":", "0", "7", "Z">>
                  => value = DatetimeValue(<<2021, 3, 4, 5, 6, 7>>, "local")
           /\ data = <<"2", "0", "2", "4", "-", "0", "2", "-", "2", "9", "T", "2", "3", ":", "5", "9", ":", "5", "9", "Z">>
                  => value = DatetimeValue(<<2024, 2, 29, 23, 59, 59>>, "local")

C8_Witness ==
    /\ GaveEvent(last) /\ last.parser = "async_parse_last_reset"
    /\ DataValue(last) = PyStr(<<"0", "0", "0", "0", "-", "0", "0", "-", "0", "0", "T", "0", "0", ":", "0", "0", ":", "0", "0", "Z">>)
    /\ last.out.event.value = NoneValue

ImageTopics ==
    {<<"t", "n", "s", "1", ":", "V", "i", "d", "e", "o", "S", "o", "u", "r", "c", "e", "/", "I", "m", "a", "g", "e", "T", "o", "o", "B", "l", "u", "r", "r", "y">>, <<"t", "n", "s", "1", ":", "V", "i", "d", "e", "o", "S", "o", "u", "r", "c", "e", "/", "I", "m", "a", "g", "e", "T", "o", "o", "D", "a", "r", "k">>,
     <<"t", "n", "s", "1", ":", "V", "i", "d", "e", "o", "S", "o", "u", "r", "c", "e", "/", "I", "m", "a", "g", "e", "T", "o", "o", "B", "r", "i", "g", "h", "t">>, <<"t", "n", "s", "1", ":", "V", "i", "d", "e", "o", "S", "o", "u", "r", "c", "e", "/", "G", "l", "o", "b", "a", "l", "S", "c", "e", "n", "e", "C", "h", "a", "n", "g", "e">>}

\* C9: every registered topic looks up to its parser; the AnalyticsService,
\* ImagingService and RecordingService variants of a topic look up to one parser; a
\* strict prefix of a registered topic, or any other string that is no key, looks up
\* to nothing.
C9_RegistryExactMatch ==
    /\ \A i \in DOMAIN REGISTRATIONS : Lookup(REGISTRATIONS[i][1]) = <<REGISTRATIONS[i][2]>>
    /\ \A base \in ImageTopics :
           /\ Lookup(base \o <<"/", "A", "n", "a", "l", "y", "t", "i", "c", "s", "S", "e", "r", "v", "i", "c", "e">>) # <<>>
           /\ Lookup(base \o <<"/", "I", "m", "a", "g", "i", "n", "g", "S", "e", "r", "v", "i", "c", "e">>) = Lookup(base \o <<"/", "A", "n", "a", "l", "y", "t", "i", "c", "s", "S", "e", "r", "v", "i", "c", "e">>)
           /\ Lookup(base \o <<"/", "R", "e", "c", "o", "r", "d", "i", "n", "g", "S", "e", "r", "v", "i", "c", "e">>) = Lookup(base \o <<"/", "A", "n", "a", "l", "y", "t", "i", "c", "s", "S", "e", "r", "v", "i", "c", "e">>)
    /\ \A i \in DOMAIN REGISTRATIONS :
           \A k \in 0..(Len(REGISTRATIONS[i][1]) - 1) :
               Lookup(SubSeq(REGISTRATIONS[i][1], 1, k)) = <<>>
    /\ last.dispatched =>
           (last.parser = "") = (\A i \in DOMAIN REGISTRATIONS : REGISTRATIONS[i][1] # last.topic)

C9_Witness ==
    /\ last.dispatched /\ last.topic = <<"t", "n", "s", "1", ":", "V", "i", "d", "e", "o", "S", "o", "u", "r", "c", "e", "/", "I", "m", "a", "g", "e", "T", "o", "o", "B", "l", "u", "r", "r", "y">>
    /\ last.out.kind = "noparser"
    /\ prev.dispatched /\ prev.topic = <<"t", "n", "s", "1", ":", "V", "i", "d", "e", "o", "S", "o", "u", "r", "c", "e", "/", "I", "m", "a", "g", "e", "T", "o", "o", "B", "l", "u", "r", "r", "y", "/", "I", "m", "a", "g", "i", "n", "g", "S", "e", "r", "v", "i", "c", "e">>
    /\ prev.parser = "async_parse_image_too_blurry"

\* C10: a malformed notification does not stop the dispatch of the notifications that
\* follow it: after a notification that gave no Event the loop is still running.
C10_MalformedDoesNotStopDispatch ==
    (last.dispatched /\ last.out.kind # "event") => loop = "running"


-----------------------------------------------------------------------------
\* the result of the invocation of a task, computed on its own
Alone(task) == Call(task.parser, device_uid, task.msg)

Done(t) == tasks[t].pc = "done"

EmptySourceMsg == Msg(Items(<<>>), Data(PyStr(<<"t", "r", "u", "e">>)))

\* C11: parser invocations that run as concurrent tasks, in any order of creation, run
\* and collection, each return the result the invocation returns on its own: the same
\* as computed alone, the same for equal arguments, and for the known messages the
\* known uids, whatever ran in between.
C11_ConcurrentIndependent ==
    /\ \A t \in TaskIds : Done(t) => tasks[t].out = Alone(tasks[t])
    /\ \A t1, t2 \in TaskIds :
           (Done(t1) /\ Done(t2) /\ tasks[t1].topic = tasks[t2].topic
            /\ tasks[t1].msg = tasks[t2].msg)
           => tasks[t1].out = tasks[t2].out
    /\ \A t \in TaskIds :
           (Done(t) /\ tasks[t].msg = EmptySourceMsg)
           => /\ tasks[t].out.kind = "event"
              /\ tasks[t].out.event.uid
                     = device_uid \o <<"_">> \o FormatValue1(PayloadOf(EmptySourceMsg))
                       \o (IF tasks[t].parser \in RuleParsers THEN <<"_", "_", "_">> ELSE <<"_">>)
    /\ \A t \in TaskIds :
           (/\ Done(t) /\ tasks[t].parser = "async_parse_field_detector"
            /\ tasks[t].msg = Msg(RuleSource(<<"V", "i", "d", "e", "o", "S", "o", "u", "r", "c", "e", "C", "o", "n", "f", "i", "g", "u", "r", "a", "t", "i", "o", "n", "T", "o", "k", "e", "n">>,
                                             <<"V", "i", "d", "e", "o", "A", "n", "a", "l", "y", "t", "i", "c", "s", "C", "o", "n", "f", "i", "g", "u", "r", "a", "t", "i", "o", "n", "T", "o", "k", "e", "n">>,
                                             <<"v", "s", "c", "o", "n", "f">>, <<"r", "1">>), Data(PyStr(<<"t", "r", "u", "e">>))))
           => /\ tasks[t].out.kind = "event"
              /\ EndsWith(tasks[t].out.event.uid, <<"_", "V", "i", "d", "e", "o", "S", "o", "u", "r", "c", "e", "T", "o", "k", "e", "n", "_", "v", "a", "_", "r", "1">>)
              /\ tasks[t].out.event.value = BoolValue(TRUE)
    /\ \A t \in TaskIds :
           (Done(t) /\ tasks[t].parser = "async_parse_processor_usage")
           => tasks[t].out.kind = "raise"

C11_Witness ==
    /\ Done(1) /\ Done(2)
    /\ tasks[1].parser = "async_parse_field_detector"
    /\ tasks[1].msg = EmptySourceMsg
    /\ tasks[1].out.kind = "event"
    /\ tasks[2].parser = "async_parse_field_detector"
    /\ tasks[2].msg # EmptySourceMsg
    /\ tasks[2].out.kind = "event"
    /\ last.msg = EmptySourceMsg

\* C12: parsing changes neither the registry nor the normalization table: after any
\* number of invocations, whether they returned an Event, returned None or raised,
\* PARSERS holds the registrations made when the module was loaded and
\* VIDEO_SOURCE_MAPPING its one entry.
C12_RegistryAndMappingUnchanged ==
    /\ PARSERS = RegisterAll(REGISTRATIONS, 1, EmptyRegistry)
    /\ DOMAIN VIDEO_SOURCE_MAPPING = {<<"v", "s", "c", "o", "n", "f">>}
    /\ VIDEO_SOURCE_MAPPING[<<"v", "s", "c", "o", "n", "f">>] = <<"V", "i", "d", "e", "o", "S", "o", "u", "r", "c", "e", "T", "o", "k", "e", "n">>

C12_Witness ==
    /\ GaveEvent(prev) /\ prev.parser = "async_parse_count_aggregation_counter"
    /\ NamedValue(prev, <<"V", "i", "d", "e", "o", "S", "o", "u", "r", "c", "e", "C", "o", "n", "f", "i", "g", "u", "r", "a", "t", "i", "o", "n", "T", "o", "k", "e", "n">>) = <<"v", "1">>
    /\ last.dispatched /\ last.out.kind = "raise"

\* the names under which a parser looks for its source token and its analytics token
SourceName(parser) ==
    IF parser = "async_parse_detected_sound" THEN <<"A", "u", "d", "i", "o", "S", "o", "u", "r", "c", "e", "C", "o", "n", "f", "i", "g", "u", "r", "a", "t", "i", "o", "n", "T", "o", "k", "e", "n">>
    ELSE IF parser \in MyRuleParsers THEN <<"S", "o", "u", "r", "c", "e">>
    ELSE <<"V", "i", "d", "e", "o", "S", "o", "u", "r", "c", "e", "C", "o", "n", "f", "i", "g", "u", "r", "a", "t", "i", "o", "n", "T", "o", "k", "e", "n">>

AnalyticsName(parser) ==
    IF parser = "async_parse_detected_sound" THEN <<"A", "u", "d", "i", "o", "A", "n", "a", "l", "y", "t", "i", "c", "s", "C", "o", "n", "f", "i", "g", "u", "r", "a", "t", "i", "o", "n", "T", "o", "k", "e", "n">>
    ELSE <<"V", "i", "d", "e", "o", "A", "n", "a", "l", "y", "t", "i", "c", "s", "C", "o", "n", "f", "i", "g", "u", "r", "a", "t", "i", "o", "n", "T", "o", "k", "e", "n">>

\* C13: a parser that reads Source items by name returns an Event whenever the Source
\* item list and Data.SimpleItem[0].Value are there, also when the list is empty or
\* holds none of the names; a name that does not occur contributes the empty string
\* to the uid.
C13_AbsentNamesGiveEmptyString ==
    (/\ Parsed(last) /\ last.parser \in RuleParsers \cup MyRuleParsers
     /\ AllPresent(last.parser, last.msg))
    => /\ last.out.kind = "event"
       /\ \E source \in {NamedValue(last, SourceName(last.parser)),
                         Canonical(NamedValue(last, SourceName(last.parser)))} :
              last.out.event.uid
                  = device_uid \o <<"_">> \o FormatValue1(PayloadOf(last.msg)) \o <<"_">> \o source
                    \o (IF last.parser \in MyRuleParsers THEN <<>>
                        ELSE <<"_">> \o NamedValue(last, AnalyticsName(last.parser))
                             \o <<"_">> \o NamedValue(last, <<"R", "u", "l", "e">>))

C13_Witness ==
    /\ GaveEvent(last) /\ last.parser = "async_parse_tamper_detector"
    /\ ItemsOf(PayloadOf(last.msg).Source) = <<Item(<<"R", "u", "l", "e">>, PyStr(<<"r", "1">>))>>
    /\ EndsWith(last.out.event.uid, <<"}", "_", "_", "_", "r", "1">>)
    /\ GaveEvent(prev) /\ prev.msg = EmptySourceMsg
    /\ EndsWith(prev.out.event.uid, <<"}", "_", "_", "_">>)

DisabledParsers ==
    {"async_parse_last_reset", "async_parse_backup_last", "async_parse_last_clock_sync"}

\* C14: an Event has entity_enabled False when it comes from the LastReset, Backup/Last
\* or LastClockSynchronization parser, and True when it comes from any other parser,
\* LastReboot included.
C14_EntityEnabled ==
    /\ GaveEvent(last) =>
           last.out.event.entity_enabled = (last.parser \notin DisabledParsers)
    /\ GaveEvent(prev) =>
           prev.out.event.entity_enabled = (prev.parser \notin DisabledParsers)

C14_Witness ==
    /\ GaveEvent(last) /\ last.parser = "async_parse_backup_last"
    /\ ~last.out.event.entity_enabled
    /\ GaveEvent(prev) /\ prev.parser = "async_parse_motion_alarm"
    /\ prev.out.event.entity_enabled

\* the source token, analytics token and rule name of the message, as its Source items
\* give them
TripleOf(entry) ==
    <<NamedValue(entry, SourceName(entry.parser)),
      NamedValue(entry, AnalyticsName(entry.parser)), NamedValue(entry, <<"R", "u", "l", "e">>)>>

\* the three joined with the separator, as the uid ends
JoinedTriple(entry) ==
    <<"_">> \o TripleOf(entry)[1] \o <<"_">> \o TripleOf(entry)[2] \o <<"_">> \o TripleOf(entry)[3]

-----------------------------------------------------------------------------
\* a step that starts a flow with this source
Starts(source) == flow.step \in {"none", "finished"} /\ flow'.step # "finished"
                  /\ flow'.source = source /\ flow' # flow

\* the step that ends a flow of this source
Ends(source) == flow.source = source /\ flow.step = "creation" /\ flow'.step = "finished"

C16_ReauthFlow ==
    [][/\ Starts("reauth") =>
              /\ flow'.step = "reauth_confirm"
              /\ flow'.result.type = "form" /\ flow'.result.step_id = "reauth_confirm"
       /\ (flow'.source = "reauth" /\ flow'.step = "auth" /\ flow.step # "auth") =>
              /\ flow.source = "reauth" /\ flow.step = "reauth_confirm"
              /\ flow'.result.type = "external"
       /\ Ends("reauth") =>
              /\ flow'.result.type = "abort"
              /\ flow'.result.reason
                     = IF <<IntToStr(flow'.response.userid)>> = flow.reauth_entry
                       THEN "reauth_successful" ELSE "wrong_account"
              /\ flow.reauth_entry = <<<<"1", "2", "3", "4", "5">>>> =>
                     (flow'.result.reason = "reauth_successful")
                         = (flow'.response.userid = USER_ID)]_vars

C16_Witness ==
    /\ flow.step = "finished" /\ flow.source = "reauth"
    /\ flow.reauth_entry = <<<<"1", "2", "3", "4", "5">>>>
    /\ flow.response.userid = 12346
    /\ flow.result.type = "abort" /\ flow.result.reason = "wrong_account"
====
